---- MODULE Spec2Model ----
(***************************************************************************)
(* Relationship and ontology-consistency validation of FAANG sample        *)
(* batches: RelationshipValidator and OntologyValidator of                 *)
(* generic_validator_classes.py, and the per-type relationship check of    *)
(* OrganoidValidator / SpecimenValidator.                                  *)
(***************************************************************************)
EXTENDS Integers, Sequences, FiniteSets, TLC

VARIABLES
    all_samples,          \* the batch: a sequence of raw records, each tagged with its sample-type key
    config,               \* RelationshipValidator.config (ValidationConfig)
    biosamples_cache,     \* RelationshipValidator.biosamples_cache: id -> parsed payload
    relationship_graph,   \* RelationshipValidator.relationship_graph: identifier -> node
    \* the value returned by the call that ran last (the return values of earlier
    \* calls are gone: the other two hold the empty map)
    validation_errors,    \* returned by validate_all_relationships: identifier -> findings
    relationship_errors,  \* returned by validate_derived_from_relationships: identifier -> findings
    organism_results,     \* returned by validate_relationships (organism check): identifier -> findings
    last_op,              \* the call that ran last
    \* the ontology lookups
    ontology_records,     \* the batch of the ontology check: records with a (text, term) pair
    _cache,               \* OntologyValidator._cache of each validator object: term key -> docs
    ols_docs,             \* the documents the term-search service holds for each query
    ols_calls,            \* requests sent to the service in this run, per query
    ols_returned,         \* the results fetch_from_ols has returned in this run, per query
    text_consistency_errors, \* returned by the ontology check that ran last: identifier -> warnings
    \* the walks of one sample, call by call
    pc,                   \* where the per-sample body of validate_all_relationships stands
    walk_sample,          \* the sample whose references are being walked
    call_stack,           \* the frames of the recursive calls in progress, innermost last
    walk_errors,          \* the findings appended so far for walk_sample
    \* the per-type validators
    field_invalid,        \* the identifiers of the records the field rules of their type reject
    field_warned,         \* the identifiers of the records that leave a recommended field out
    validate_args,        \* the validate_relationships and validate_ontology_text arguments
    validation_results,   \* returned (or raised) by the validate_samples / validate_records that ran last
    \* a batch fetch, one loop turn, request or response per step
    fetch_pc,             \* "idle", "loop" (at the head of the loop), "request" (waiting for the answer), "done"
    fetch_service,        \* "biosamples" or "ols": the loop that runs
    fetch_pending,        \* the keys the loop has not finished, in its iteration order
    in_flight,            \* the requests sent and not yet answered
    printed,              \* the failure messages printed, as <<service, key>>
    requested,            \* the requests the services have received, as <<service, key>>
    fetch_results,        \* the results dict of fetch_ontology_data_for_ids
    \* one call of an _extract_derived_from
    sample_dict,          \* the record handed to it: its keys and their values
    extracted,            \* what the call returned or raised
    \* the upload service
    clients,              \* websocket_client.clients: the connected sockets
    tasks                 \* the process_file task of each uploaded file

relVars == <<all_samples, config, biosamples_cache, relationship_graph,
             validation_errors, relationship_errors, organism_results>>

olsVars == <<ontology_records, _cache, ols_docs, ols_calls, ols_returned,
             text_consistency_errors>>

walkVars == <<pc, walk_sample, call_stack, walk_errors>>

orchVars == <<field_invalid, field_warned, validate_args, validation_results>>

fetchVars == <<fetch_pc, fetch_service, fetch_pending, in_flight, printed, requested, fetch_results>>

extractVars == <<sample_dict, extracted>>

uploadVars == <<clients, tasks>>

vars == <<relVars, olsVars, walkVars, orchVars, fetchVars, extractVars, uploadVars, last_op>>

----------------------------------------------------------------------------
(* Bounds of the model *)

MaxRefs == 2        \* longest 'Child Of' list of a record
MaxDepth == 2       \* largest configured max_relationship_depth

----------------------------------------------------------------------------
(* Strings *)

RESTRICTED == "restricted access"

NoResult == <<>>    \* the empty finding map

\* str.strip() on the strings of the model
Strip(s) ==
    CASE s = " "   -> ""
      [] s = " A"  -> "A"
      [] OTHER     -> s

\* str.upper() on the strings of the model
Upper(s) ==
    CASE s = "samea1"            -> "SAMEA1"
      [] s = RESTRICTED          -> "RESTRICTED ACCESS"
      [] s = "x"                 -> "X"
      [] OTHER                   -> s

\* str.lower() on the material texts of the model
LowerMaterial(s) ==
    CASE s = "Organism"               -> "organism"
      [] s = "Specimen from Organism" -> "specimen from organism"
      [] OTHER                        -> s

\* 'SAM' in s, for an upper-cased s
ContainsSAM(s) == s \in {"SAMEA1", "SAMEA2"}

\* s.startswith('SAM'), for an upper-cased s
StartsWithSAM(s) == s \in {"SAMEA1", "SAMEA2"}

\* a truthy, non-blank string: `x and x.strip()`
NonBlank(s) == s # "" /\ Strip(s) # ""

----------------------------------------------------------------------------
(* Sequence helpers *)

Range(s) == {s[i] : i \in 1..Len(s)}

BSeq(S, n) == UNION {[1..k -> S] : k \in 0..n}

\* list.index(x): the first position of x in s
IndexOf(s, x) == CHOOSE i \in 1..Len(s) : s[i] = x /\ \A j \in 1..(i-1) : s[j] # x

\* the number of positions of s holding x
Count(s, x) == Cardinality({i \in 1..Len(s) : s[i] = x})

RECURSIVE FlattenSeq(_)
FlattenSeq(ss) == IF ss = <<>> THEN <<>> ELSE Head(ss) \o FlattenSeq(Tail(ss))

----------------------------------------------------------------------------
(* Findings: the error strings of the checkers, kept as data.               *)
(*   cat     existence | material | species | cycle | depth                 *)
(*   ref     the reference the message names ('' for cycle and depth)       *)
(*   detail  material: the allowed kinds; cycle: the path;                  *)
(*           species: <<child, child species, parent species>>              *)

Finding(cat, ref, detail) == [cat |-> cat, ref |-> ref, detail |-> detail]

\* the mutual-reference finding of the organism check
\* ("parent '<ref>' is listing the child as its parent")
ParentListsChild(ref) == Finding("cycle", ref, <<>>)

\* Static compatibility table: material kind -> allowed parent kinds
ALLOWED_RELATIONSHIPS(material) ==
    CASE material = "organoid"               -> <<"specimen from organism", "cell culture", "cell line">>
      [] material = "organism"               -> <<"organism">>
      [] material = "specimen from organism" -> <<"organism">>
      [] material = "cell culture"           -> <<"specimen from organism", "organism">>
      [] material = "cell line"              -> <<"specimen from organism", "organism">>
      [] material = "cell specimen"          -> <<"specimen from organism", "organism">>
      [] material = "single cell specimen"   -> <<"specimen from organism", "organism">>
      [] material = "pool of specimens"      -> <<"specimen from organism", "organism">>
      [] OTHER                               -> <<>>

TableKinds == {"organoid", "organism", "specimen from organism", "cell culture", "cell line",
               "cell specimen", "single cell specimen", "pool of specimens"}

----------------------------------------------------------------------------
(* Field extraction (RelationshipValidator) *)

_extract_sample_name(sample) == sample.SampleName

_extract_material(sample, sample_type) ==
    IF sample.Material # "" THEN sample.Material ELSE sample_type

_extract_organism(sample) == sample.Organism

\* the stripped non-blank entries of a list, in order
StripList(xs) ==
    LET keep == SelectSeq(xs, NonBlank)
    IN [i \in 1..Len(keep) |-> Strip(keep[i])]

_extract_derived_from(sample) ==
    LET d == IF NonBlank(sample.DerivedFrom) THEN <<Strip(sample.DerivedFrom)>> ELSE <<>>
        c == StripList(sample.ChildOf)
    IN SelectSeq(d \o c, NonBlank)

\* a variant that makes a node of every record, named or not
_build_relationship_graph_unnamed(samples) ==
    LET named == 1..Len(samples)
        names == {_extract_sample_name(samples[i]) : i \in named}
        last(n) == CHOOSE i \in named : /\ _extract_sample_name(samples[i]) = n
                                        /\ \A j \in named : _extract_sample_name(samples[j]) = n => j <= i
    IN [n \in names |->
          [material      |-> _extract_material(samples[last(n)], samples[last(n)].sample_type),
           relationships |-> _extract_derived_from(samples[last(n)]),
           sample_type   |-> samples[last(n)].sample_type,
           organism      |-> _extract_organism(samples[last(n)])]]

_build_relationship_graph(samples) ==
    LET named == {i \in 1..Len(samples) : _extract_sample_name(samples[i]) # ""}
        names == {_extract_sample_name(samples[i]) : i \in named}
        \* a later record of the same name overwrites an earlier one
        last(n) == CHOOSE i \in named : /\ _extract_sample_name(samples[i]) = n
                                        /\ \A j \in named : _extract_sample_name(samples[j]) = n => j <= i
    IN [n \in names |->
          [material      |-> _extract_material(samples[last(n)], samples[last(n)].sample_type),
           relationships |-> _extract_derived_from(samples[last(n)]),
           sample_type   |-> samples[last(n)].sample_type,
           organism      |-> _extract_organism(samples[last(n)])]]

_collect_biosample_ids(samples) ==
    {Upper(r) : r \in {x \in UNION {Range(_extract_derived_from(samples[i])) : i \in 1..Len(samples)} :
                          ContainsSAM(Upper(x))}}

----------------------------------------------------------------------------
(* RelationshipValidator: existence and material compatibility *)

\* a variant that skips a missing reference without reporting it
_validate_basic_relationships_ref_skip(ref, current_material, graph, cache, cfg) ==
    IF ref = RESTRICTED THEN <<>>
    ELSE IF ref \notin DOMAIN graph /\ ref \notin DOMAIN cache
    THEN <<>>
    ELSE LET ref_material == IF ref \in DOMAIN graph
                             THEN graph[ref].material
                             ELSE LowerMaterial(cache[ref].material)
             allowed_materials == ALLOWED_RELATIONSHIPS(current_material)
         IN IF ref_material # "" /\ ref_material \notin Range(allowed_materials)
            THEN <<Finding("material", ref, allowed_materials)>>
            ELSE <<>>

\* a variant that treats the sentinel as an ordinary reference
_validate_basic_relationships_ref_nosentinel(ref, current_material, graph, cache, cfg) ==
    IF ref \notin DOMAIN graph /\ ref \notin DOMAIN cache
    THEN IF StartsWithSAM(Upper(ref)) /\ ~cfg.treat_missing_biosamples_as_errors
         THEN <<>>
         ELSE <<Finding("existence", ref, <<>>)>>
    ELSE LET ref_material == IF ref \in DOMAIN graph
                             THEN graph[ref].material
                             ELSE LowerMaterial(cache[ref].material)
             allowed_materials == ALLOWED_RELATIONSHIPS(current_material)
         IN IF ref_material # "" /\ ref_material \notin Range(allowed_materials)
            THEN <<Finding("material", ref, allowed_materials)>>
            ELSE <<>>

\* a variant that reports a missing external identifier whatever the flag
_validate_basic_relationships_ref_noflag(ref, current_material, graph, cache, cfg) ==
    IF ref = RESTRICTED THEN <<>>
    ELSE IF ref \notin DOMAIN graph /\ ref \notin DOMAIN cache
    THEN <<Finding("existence", ref, <<>>)>>
    ELSE LET ref_material == IF ref \in DOMAIN graph
                             THEN graph[ref].material
                             ELSE LowerMaterial(cache[ref].material)
             allowed_materials == ALLOWED_RELATIONSHIPS(current_material)
         IN IF ref_material # "" /\ ref_material \notin Range(allowed_materials)
            THEN <<Finding("material", ref, allowed_materials)>>
            ELSE <<>>

\* one iteration of the loop over refs
_validate_basic_relationships_ref(ref, current_material, graph, cache, cfg) ==
    IF ref = RESTRICTED THEN <<>>
    ELSE IF ref \notin DOMAIN graph /\ ref \notin DOMAIN cache
    THEN IF StartsWithSAM(Upper(ref)) /\ ~cfg.treat_missing_biosamples_as_errors
         THEN <<>>
         ELSE <<Finding("existence", ref, <<>>)>>
    ELSE LET ref_material == IF ref \in DOMAIN graph
                             THEN graph[ref].material
                             ELSE LowerMaterial(cache[ref].material)
             allowed_materials == ALLOWED_RELATIONSHIPS(current_material)
         IN IF ref_material # "" /\ ref_material \notin Range(allowed_materials)
            THEN <<Finding("material", ref, allowed_materials)>>
            ELSE <<>>

_validate_basic_relationships(sample, sample_type, graph, cache, cfg) ==
    LET refs == _extract_derived_from(sample)
        current_material == _extract_material(sample, sample_type)
    IN FlattenSeq([i \in 1..Len(refs) |->
            _validate_basic_relationships_ref(refs[i], current_material, graph, cache, cfg)])

----------------------------------------------------------------------------
(* RelationshipValidator: cycle detection *)

RECURSIVE has_cycle(_, _, _, _)
RECURSIVE has_cycle_refs(_, _, _, _, _)

\* a variant that reports the whole walk instead of the part from the revisited node on
has_cycle_whole_path(current, visited, path, graph) ==
    IF current \in visited
    THEN path \o <<current>>
    ELSE IF current \notin DOMAIN graph
    THEN <<>>
    ELSE has_cycle_refs(graph[current].relationships, 1,
                        visited \cup {current}, Append(path, current), graph)

\* the cycle found (a non-empty list) or <<>> for None
has_cycle(current, visited, path, graph) ==
    IF current \in visited
    THEN IF current \in Range(path)
         THEN SubSeq(path, IndexOf(path, current), Len(path)) \o <<current>>
         ELSE <<current>>
    ELSE IF current \notin DOMAIN graph
    THEN <<>>
    ELSE has_cycle_refs(graph[current].relationships, 1,
                        visited \cup {current}, Append(path, current), graph)

\* a variant whose calls share one visited set: a reference walked before
\* counts as visited for the references after it
has_cycle_refs_shared_visited(relationships, i, visited, path, graph) ==
    IF i > Len(relationships) THEN <<>>
    ELSE IF relationships[i] = RESTRICTED
    THEN has_cycle_refs(relationships, i + 1, visited, path, graph)
    ELSE LET cycle == has_cycle(relationships[i], visited, path, graph)
         IN IF cycle # <<>> THEN cycle
            ELSE has_cycle_refs(relationships, i + 1, visited \cup {relationships[i]}, path, graph)

\* the loop over relationships, from position i on; returns at the first cycle
has_cycle_refs(relationships, i, visited, path, graph) ==
    IF i > Len(relationships) THEN <<>>
    ELSE IF relationships[i] = RESTRICTED
    THEN has_cycle_refs(relationships, i + 1, visited, path, graph)
    ELSE LET cycle == has_cycle(relationships[i], visited, path, graph)
         IN IF cycle # <<>> THEN cycle
            ELSE has_cycle_refs(relationships, i + 1, visited, path, graph)

_detect_circular_references(sample_name, graph) ==
    LET cycle == has_cycle(sample_name, {}, <<>>, graph)
    IN IF cycle # <<>> THEN <<Finding("cycle", "", cycle)>> ELSE <<>>

----------------------------------------------------------------------------
(* RelationshipValidator: relationship chains (species, depth) *)

RECURSIVE validate_chain(_, _, _, _)
RECURSIVE validate_chain_refs(_, _, _, _, _)

DepthExceeded == Finding("depth", "", <<>>)

\* a variant that reports a chain as soon as it reaches the maximum
depth_exceeds_maximum_at_limit(depth, cfg) == depth >= cfg.max_relationship_depth

depth_exceeds_maximum(depth, cfg) == depth > cfg.max_relationship_depth

validate_chain(current, depth, graph, cfg) ==
    IF depth_exceeds_maximum(depth, cfg) THEN <<DepthExceeded>>
    ELSE IF current \notin DOMAIN graph THEN <<>>
    ELSE validate_chain_refs(current, 1, depth, graph, cfg)

\* the loop over the relationships of current, from position i on
validate_chain_refs(current, i, depth, graph, cfg) ==
    LET current_data == graph[current]
        relationships == current_data.relationships
    IN IF i > Len(relationships) THEN <<>>
       ELSE LET ref == relationships[i]
                species ==
                    IF /\ current_data.sample_type = "organism"
                       /\ ref \in DOMAIN graph
                       /\ graph[ref].sample_type = "organism"
                       /\ current_data.organism # ""
                       /\ graph[ref].organism # ""
                       /\ current_data.organism # graph[ref].organism
                    THEN <<Finding("species", ref,
                                   <<current, current_data.organism, graph[ref].organism>>)>>
                    ELSE <<>>
            IN IF ref = RESTRICTED
               THEN validate_chain_refs(current, i + 1, depth, graph, cfg)
               ELSE species \o validate_chain(ref, depth + 1, graph, cfg)
                            \o validate_chain_refs(current, i + 1, depth, graph, cfg)

_validate_relationship_chains(sample_name, graph, cfg) ==
    validate_chain(sample_name, 0, graph, cfg)

----------------------------------------------------------------------------
(* RelationshipValidator.validate_all_relationships *)

\* a variant that runs the chain validation before the cycle detection
SampleErrors_chain_first(sample, graph, cache, cfg) ==
    LET sample_name == _extract_sample_name(sample)
    IN _validate_basic_relationships(sample, sample.sample_type, graph, cache, cfg)
       \o (IF cfg.enable_relationship_chain_validation
           THEN _validate_relationship_chains(sample_name, graph, cfg) ELSE <<>>)
       \o (IF cfg.enable_circular_reference_detection
           THEN _detect_circular_references(sample_name, graph) ELSE <<>>)

\* the findings of one record, in the order they are appended
SampleErrors(sample, graph, cache, cfg) ==
    LET sample_name == _extract_sample_name(sample)
    IN _validate_basic_relationships(sample, sample.sample_type, graph, cache, cfg)
       \o (IF cfg.enable_circular_reference_detection
           THEN _detect_circular_references(sample_name, graph) ELSE <<>>)
       \o (IF cfg.enable_relationship_chain_validation
           THEN _validate_relationship_chains(sample_name, graph, cfg) ELSE <<>>)

\* the finding map: a key only for a named record with findings
\* (a later record of the same name with findings overwrites)
ValidationErrorsOf(samples, graph, cache, cfg) ==
    LET has(i) == /\ _extract_sample_name(samples[i]) # ""
                  /\ SampleErrors(samples[i], graph, cache, cfg) # <<>>
        idx == {i \in 1..Len(samples) : has(i)}
        last(n) == CHOOSE i \in idx : /\ _extract_sample_name(samples[i]) = n
                                      /\ \A j \in idx : _extract_sample_name(samples[j]) = n => j <= i
    IN [n \in {_extract_sample_name(samples[i]) : i \in idx} |->
            SampleErrors(samples[last(n)], graph, cache, cfg)]

\* what the sample repository can answer for an id: a 200 answer with the
\* characteristics _parse_biosample_response keeps, or no usable answer
\* (another status, an 'error' body, a timeout)
Responses ==
    {[ok |-> TRUE, organism |-> "Sus scrofa", material |-> "Organism"],
     [ok |-> TRUE, organism |-> "", material |-> "specimen from organism"],
     [ok |-> TRUE, organism |-> "Bos taurus", material |-> ""],
     [ok |-> FALSE, organism |-> "", material |-> ""]}

_parse_biosample_response(data) == [organism |-> data.organism, material |-> data.material]

\* one answer for every id that fetch_biosample_data requests: an id already
\* cached is not requested again
FetchOutcomes(ids, cache) == [ids \ DOMAIN cache -> Responses]

\* fetch_biosample_data: only a usable answer is cached
fetch_biosample_data(cache, outcome) ==
    LET got == {id \in DOMAIN outcome : outcome[id].ok}
    IN [id \in DOMAIN cache \cup got |->
            IF id \in DOMAIN cache THEN cache[id] ELSE _parse_biosample_response(outcome[id])]

validate_all_relationships ==
    LET graph == _build_relationship_graph(all_samples)
        ids == IF config.enable_external_biosample_validation
               THEN _collect_biosample_ids(all_samples) ELSE {}
    IN \E outcome \in FetchOutcomes(ids, biosamples_cache) :
          LET cache == fetch_biosample_data(biosamples_cache, outcome)
          IN /\ relationship_graph' = graph
             /\ biosamples_cache' = cache
             /\ validation_errors' = ValidationErrorsOf(all_samples, graph, cache, config)
             /\ relationship_errors' = NoResult
             /\ organism_results' = NoResult
             /\ last_op' = "validate_all_relationships"
             /\ UNCHANGED <<all_samples, config, olsVars, walkVars, orchVars, fetchVars, extractVars, uploadVars>>

----------------------------------------------------------------------------
(* OrganoidValidator / SpecimenValidator.validate_derived_from_relationships *)

OrganoidValidator_extract_material(sample) == sample.Material

\* step 1: identifier -> material and references of every named record of the batch
DerivedFromRelationships(samples) ==
    LET named == {i \in 1..Len(samples) : _extract_sample_name(samples[i]) # ""}
        last(n) == CHOOSE i \in named : /\ _extract_sample_name(samples[i]) = n
                                        /\ \A j \in named : _extract_sample_name(samples[j]) = n => j <= i
    IN [n \in {_extract_sample_name(samples[i]) : i \in named} |->
            [material      |-> OrganoidValidator_extract_material(samples[last(n)]),
             relationships |-> _extract_derived_from(samples[last(n)])]]

\* one iteration of the loop over rel_info['relationships']
DerivedFromRefErrors(derived_from_ref, current_material, relationships) ==
    IF derived_from_ref \notin DOMAIN relationships
    THEN <<Finding("existence", derived_from_ref, <<>>)>>
    ELSE LET ref_material == relationships[derived_from_ref].material
             allowed_materials == ALLOWED_RELATIONSHIPS(current_material)
         IN IF ref_material \notin Range(allowed_materials)
            THEN <<Finding("material", derived_from_ref, allowed_materials)>>
            ELSE <<>>

\* step 2, for one node: a node without references or with a restricted one is skipped
DerivedFromNodeErrors(rel_info, relationships) ==
    IF rel_info.relationships = <<>> THEN <<>>
    ELSE IF \E i \in 1..Len(rel_info.relationships) : rel_info.relationships[i] = RESTRICTED
    THEN <<>>
    ELSE FlattenSeq([i \in 1..Len(rel_info.relationships) |->
            DerivedFromRefErrors(rel_info.relationships[i], rel_info.material, relationships)])

validate_derived_from_relationships_result(samples) ==
    LET relationships == DerivedFromRelationships(samples)
        bad == {n \in DOMAIN relationships :
                    DerivedFromNodeErrors(relationships[n], relationships) # <<>>}
    IN [n \in bad |-> DerivedFromNodeErrors(relationships[n], relationships)]

validate_derived_from_relationships ==
    /\ relationship_errors' = validate_derived_from_relationships_result(all_samples)
    /\ validation_errors' = NoResult
    /\ organism_results' = NoResult
    /\ last_op' = "validate_derived_from_relationships"
    /\ UNCHANGED <<all_samples, config, biosamples_cache, relationship_graph, olsVars, walkVars, orchVars, fetchVars, extractVars, uploadVars>>

----------------------------------------------------------------------------
(* RelationshipValidator.validate_relationships: the organism check *)

get_organism_identifier(organism) ==
    IF NonBlank(organism.SampleName) THEN Strip(organism.SampleName) ELSE "unknown"

\* the organism records of the batch, which OrganismValidator hands to the check
Organisms(samples) == SelectSeq(samples, LAMBDA r : r.sample_type = "organism")

\* name -> record; a later record of the same name overwrites
OrganismMap(organisms) ==
    LET last(n) == CHOOSE i \in 1..Len(organisms) :
                      /\ get_organism_identifier(organisms[i]) = n
                      /\ \A j \in 1..Len(organisms) : get_organism_identifier(organisms[j]) = n => j <= i
    IN [n \in {get_organism_identifier(organisms[i]) : i \in 1..Len(organisms)} |-> organisms[last(n)]]

\* parent ids to fetch: `parent_id.startswith('SAM')`, case-sensitive
OrganismBiosampleIds(organisms) ==
    {Strip(p) : p \in {x \in UNION {Range(organisms[i].ChildOf) : i \in 1..Len(organisms)} :
                          NonBlank(x) /\ StartsWithSAM(x)}}

\* one iteration of the loop over child_of
OrganismParentErrors(org, name, raw_parent_id, organism_map, cache) ==
    LET parent_id == Strip(raw_parent_id)
    IN IF ~NonBlank(raw_parent_id) THEN <<>>
       ELSE IF parent_id = RESTRICTED THEN <<>>
       ELSE IF parent_id \notin DOMAIN organism_map /\ parent_id \notin DOMAIN cache
       THEN <<Finding("existence", parent_id, <<>>)>>
       ELSE LET local == parent_id \in DOMAIN organism_map
                parent_species == IF local THEN organism_map[parent_id].Organism
                                  ELSE cache[parent_id].organism
                parent_material == IF local THEN "organism"
                                   ELSE LowerMaterial(cache[parent_id].material)
                current_species == org.Organism
                allowed_materials == ALLOWED_RELATIONSHIPS("organism")
                species == IF current_species # "" /\ parent_species # ""
                              /\ current_species # parent_species
                           THEN <<Finding("species", parent_id,
                                          <<name, current_species, parent_species>>)>>
                           ELSE <<>>
                material == IF parent_material # "" /\ parent_material \notin Range(allowed_materials)
                            THEN <<Finding("material", parent_id, allowed_materials)>>
                            ELSE <<>>
                grandparents == IF local THEN organism_map[parent_id].ChildOf ELSE <<>>
                circular == FlattenSeq([g \in 1..Len(grandparents) |->
                                IF grandparents[g] # "" /\ Strip(grandparents[g]) = name
                                THEN <<ParentListsChild(parent_id)>> ELSE <<>>])
            IN species \o material \o circular

OrganismErrors(org, organism_map, cache) ==
    FlattenSeq([i \in 1..Len(org.ChildOf) |->
        OrganismParentErrors(org, get_organism_identifier(org), org.ChildOf[i], organism_map, cache)])

validate_relationships_result(organisms, cache) ==
    LET organism_map == OrganismMap(organisms)
        idx == {i \in 1..Len(organisms) : OrganismErrors(organisms[i], organism_map, cache) # <<>>}
        last(n) == CHOOSE i \in idx : /\ get_organism_identifier(organisms[i]) = n
                                      /\ \A j \in idx : get_organism_identifier(organisms[j]) = n => j <= i
    IN [n \in {get_organism_identifier(organisms[i]) : i \in idx} |->
            OrganismErrors(organisms[last(n)], organism_map, cache)]

validate_relationships ==
    LET organisms == Organisms(all_samples)
        ids == IF config.enable_external_biosample_validation
               THEN OrganismBiosampleIds(organisms) ELSE {}
    IN \E outcome \in FetchOutcomes(ids, biosamples_cache) :
          LET cache == fetch_biosample_data(biosamples_cache, outcome)
          IN /\ biosamples_cache' = cache
             /\ organism_results' = validate_relationships_result(organisms, cache)
             /\ validation_errors' = NoResult
             /\ relationship_errors' = NoResult
             /\ last_op' = "validate_relationships"
             /\ UNCHANGED <<all_samples, config, relationship_graph, olsVars, walkVars, orchVars, fetchVars, extractVars, uploadVars>>

----------------------------------------------------------------------------
(* Batches and configurations *)

\* ValidationConfig() as constructed by RelationshipValidator.__init__, with the
\* depth limit scaled to the model
DefaultConfig(depth) ==
    [enable_external_biosample_validation |-> TRUE,
     enable_relationship_chain_validation |-> TRUE,
     enable_circular_reference_detection  |-> TRUE,
     treat_missing_biosamples_as_errors   |-> TRUE,
     max_relationship_depth               |-> depth]

Record(name, type, material, organism, derived_from, child_of) ==
    [SampleName |-> name, sample_type |-> type, Material |-> material,
     Organism |-> organism, DerivedFrom |-> derived_from, ChildOf |-> child_of]

\* sample type, Material and Organism of a record
RecordKinds ==
    {<<"organism", "", "Sus scrofa">>,
     <<"organism", "organism", "Bos taurus">>,
     <<"specimen_from_organism", "specimen from organism", "">>}

\* what a reference list may hold: the two identifiers of the batch, an
\* identifier no record has, and the sentinel
RefTargets == {"A", "B", "X", RESTRICTED}

\* the records of one name with a 'Child Of' list of at most n references
RecordsNamed(name, n) ==
    {Record(name, k[1], k[2], k[3], "", c) : k \in RecordKinds, c \in BSeq(RefTargets, n)}

\* no record carries a (text, term) pair: the ontology lookups have nothing to do
NoOntologyBatch ==
    /\ ontology_records = <<>>
    /\ _cache = <<>>
    /\ ols_docs = <<>>
    /\ ols_calls = <<>>
    /\ ols_returned = <<>>
    /\ text_consistency_errors = NoResult

\* the summary of a result before any record is counted
Summary(total, valid, invalid, warnings, rel_errors) ==
    [total |-> total, valid |-> valid, invalid |-> invalid, warnings |-> warnings,
     relationship_errors |-> rel_errors]

\* what a validate call leaves when it raises: the name of the exception and no result
Raised(exception) ==
    [raised |-> exception, valid |-> <<>>, invalid |-> <<>>, summary |-> Summary(0, 0, 0, 0, 0)]

ValidateArgs(with_relationships, with_ontology_text) ==
    [validate_relationships |-> with_relationships, validate_ontology_text |-> with_ontology_text]

\* no per-type validator has run
NoValidation ==
    /\ field_invalid = {}
    /\ field_warned = {}
    /\ validate_args = ValidateArgs(TRUE, TRUE)
    /\ validation_results = Raised("")

\* what an _extract_derived_from returns, or the exception it raises
Extracted(exception, refs) == [raised |-> exception, refs |-> refs]

\* the files that are uploaded and the sockets that connect
Files == {"f1", "f2"}

Sockets == {"ws1"}

\* the process_file task of a file: where it stands ("none": not uploaded,
\* "queued": created by upload, "broadcast": inside a broadcast, "sleep": at
\* asyncio.sleep(0), "finished"), the size upload counted, the bytes read, the
\* messages it has broadcast, and the sockets the broadcast in progress has
\* still to send to and has found dead
Task(position, total) ==
    [pc |-> position, total |-> total, done |-> 0, log |-> <<>>,
     pending |-> {}, dead |-> {}, failed |-> FALSE]

\* nothing is uploaded and no socket is connected
NoUpload ==
    /\ clients = {}
    /\ tasks = [f \in Files |-> Task("none", 0)]

\* no record has been handed to an _extract_derived_from
NoExtraction ==
    /\ sample_dict = <<>>
    /\ extracted = Extracted("", <<>>)

\* no batch fetch is in progress
NoFetch ==
    /\ fetch_pc = "idle"
    /\ fetch_service = ""
    /\ fetch_pending = <<>>
    /\ in_flight = 0
    /\ printed = <<>>
    /\ requested = {}
    /\ fetch_results = <<>>

\* no walk is in progress
NoWalk ==
    /\ pc = "idle"
    /\ walk_sample = ""
    /\ call_stack = <<>>
    /\ walk_errors = <<>>

\* a batch of two records; the list of B is one shorter than the longest list of A
Init ==
    /\ all_samples \in {<<a, b>> : a \in RecordsNamed("A", MaxRefs), b \in RecordsNamed("B", MaxRefs - 1)}
    /\ config = DefaultConfig(MaxDepth)
    /\ biosamples_cache = <<>>
    /\ relationship_graph = <<>>
    /\ validation_errors = NoResult
    /\ relationship_errors = NoResult
    /\ organism_results = NoResult
    /\ last_op = "none"
    /\ NoOntologyBatch
    /\ NoWalk
    /\ NoFetch
    /\ NoExtraction
    /\ NoUpload
    /\ NoValidation

Next ==
    \/ validate_all_relationships
    \/ validate_derived_from_relationships
    \/ validate_relationships

Spec == Init /\ [][Next]_vars

\* a batch of three records, the second without a 'Sample Name'
UnnamedRefs == {<<>>, <<"A">>, <<"X">>}

InitUnnamed ==
    /\ all_samples \in
          {<<a, Record("", k[1], k[2], k[3], "", c), Record("B", "organism", "organism", "Sus scrofa", "", <<>>)>> :
              a \in RecordsNamed("A", MaxRefs), k \in RecordKinds, c \in UnnamedRefs}
    /\ config = DefaultConfig(MaxDepth)
    /\ biosamples_cache = <<>>
    /\ relationship_graph = <<>>
    /\ validation_errors = NoResult
    /\ relationship_errors = NoResult
    /\ organism_results = NoResult
    /\ last_op = "none"
    /\ NoOntologyBatch
    /\ NoWalk
    /\ NoValidation
    /\ NoFetch
    /\ NoExtraction
    /\ NoUpload

SpecUnnamed == InitUnnamed /\ [][Next]_vars

\* Batches with external identifiers, under every configuration and with a
\* cache that an earlier batch of the same validator may have filled
\* a batch of four organisms of two species: A lists up to MaxRefs of B and C
\* (a reference twice included), B and C each list at most one node, D lists
\* none: the chains join (A -> B -> D and A -> C -> D), follow one another
\* (A -> B -> C -> D) or close (B -> A)
Species == {"Sus scrofa", "Bos taurus"}

InitDiamond ==
    /\ all_samples \in
          {<<Record("A", "organism", "organism", "Sus scrofa", "", ca),
             Record("B", "organism", "organism", sb, "", cb),
             Record("C", "organism", "organism", sc, "", cc),
             Record("D", "organism", "organism", "Sus scrofa", "", <<>>)>> :
              ca \in BSeq({"B", "C"}, MaxRefs), cb \in BSeq({"C", "D", "A"}, 1),
              cc \in BSeq({"D", "A"}, 1), sb \in Species, sc \in Species}
    /\ config \in {DefaultConfig(d) : d \in 0..MaxDepth}
    /\ biosamples_cache = <<>>
    /\ relationship_graph = <<>>
    /\ validation_errors = NoResult
    /\ relationship_errors = NoResult
    /\ organism_results = NoResult
    /\ last_op = "none"
    /\ NoOntologyBatch
    /\ NoWalk
    /\ NoFetch
    /\ NoExtraction
    /\ NoUpload
    /\ NoValidation

SpecDiamond == InitDiamond /\ [][Next]_vars

Flags == {TRUE, FALSE}

Configs ==
    {[enable_external_biosample_validation |-> e,
      enable_relationship_chain_validation |-> ch,
      enable_circular_reference_detection  |-> ci,
      treat_missing_biosamples_as_errors   |-> t,
      max_relationship_depth               |-> MaxDepth] : e \in Flags, ch \in Flags, ci \in Flags, t \in Flags}

ExternalKinds ==
    {<<"organism", "", "Sus scrofa">>,
     <<"specimen_from_organism", "specimen from organism", "">>}

\* a local identifier, a missing one, an external identifier in both letter
\* cases, and the sentinel
ExternalRefTargets == {"B", "X", "SAMEA1", "samea1", RESTRICTED}

InitExternal ==
    /\ all_samples \in
          {<<Record("A", ka[1], ka[2], ka[3], "", ca), Record("B", kb[1], kb[2], kb[3], "", cb)>> :
              ka \in ExternalKinds, ca \in BSeq(ExternalRefTargets, MaxRefs),
              kb \in ExternalKinds, cb \in {<<>>, <<"A">>, <<RESTRICTED>>}}
    /\ config \in Configs
    /\ biosamples_cache \in
          {<<>>, [id \in {"SAMEA1"} |-> [organism |-> "Sus scrofa", material |-> "organism"]]}
    /\ relationship_graph = <<>>
    /\ validation_errors = NoResult
    /\ relationship_errors = NoResult
    /\ organism_results = NoResult
    /\ last_op = "none"
    /\ NoOntologyBatch
    /\ NoWalk
    /\ NoFetch
    /\ NoExtraction
    /\ NoUpload
    /\ NoValidation

SpecExternal == InitExternal /\ [][Next]_vars

----------------------------------------------------------------------------
(* Ontology lookups: OntologyValidator and the ontology-text checks *)

MaxCalls == 2       \* most requests sent to the term-search service for one query

SENTINELS == {"restricted access", "not applicable", "not collected", "not provided"}

\* str.lower on the texts, labels and ontology names of the model
Lower(text) ==
    CASE text = "Adult" -> "adult"
      [] text = "NCBITaxon" -> "ncbitaxon"
      [] OTHER -> text

\* term.replace('_', ':', 1) on the terms of the model
ColonForm(term) ==
    CASE term = "EFO_0001272" -> "EFO:0001272"
      [] term = "NCBITaxon_9823" -> "NCBITaxon:9823"
      [] OTHER -> term

\* term_id.replace(':', '_'): the query string sent to the service
QueryOf(term_id) ==
    CASE term_id = "EFO:0001272" -> "EFO_0001272"
      [] term_id = "NCBITaxon:9823" -> "NCBITaxon_9823"
      [] OTHER -> term_id

\* the part of a term before its colon
PrefixOf(term_with_colon) ==
    CASE term_with_colon = "EFO:0001272" -> "EFO"
      [] term_with_colon = "NCBITaxon:9823" -> "NCBITaxon"
      [] OTHER -> ""

\* the receivers of fetch_from_ols that outlive a call: the lookup objects of
\* the organoid validators (OrganoidValidator, OrganoidPydanticValidator), of
\* the specimen and teleostei embryo validators, and one used directly
Owners == {"organoid", "organoid_pydantic", "specimen", "teleostei_embryo", "ontology"}

Queries == {"EFO_0001272", "NCBITaxon_9823", "not applicable"}

Doc(ontology_name, label) == [ontology_name |-> ontology_name, label |-> label]

\* fetch_from_ols on a lookup object with the given cache: the cached docs if
\* the key is cached; otherwise one request, whose docs are cached and
\* returned if it succeeds, and which yields [] uncached if it raises
cache_enabled == TRUE

fetch_from_ols(cache, term_id, docs, ok) ==
    IF cache_enabled /\ term_id \in DOMAIN cache
    THEN [docs |-> cache[term_id], cache |-> cache, called |-> FALSE]
    ELSE IF ok
    THEN [docs |-> docs,
          cache |-> IF cache_enabled THEN (term_id :> docs) @@ cache ELSE cache,
          called |-> TRUE]
    ELSE [docs |-> <<>>, cache |-> cache, called |-> TRUE]

\* the lookup state after one fetch_from_ols
AfterFetch(st, term_id, oks) ==
    LET q == QueryOf(term_id)
        f == fetch_from_ols(st.cache, term_id, ols_docs[q], oks[q])
    IN [cache    |-> f.cache,
        calls    |-> IF f.called THEN [st.calls EXCEPT ![q] = @ + 1] ELSE st.calls,
        returned |-> [st.returned EXCEPT ![q] = @ \cup {f.docs}],
        docs     |-> f.docs]

LookupState(owner) ==
    [cache |-> _cache[owner], calls |-> ols_calls, returned |-> ols_returned, docs |-> <<>>]

\* a request may still be sent for every term of ids that the owner has not cached
MayFetch(owner, ids) ==
    \A t \in ids : t \notin DOMAIN _cache[owner] => ols_calls[QueryOf(t)] < MaxCalls

SetLookupState(owner, st) ==
    /\ _cache' = [_cache EXCEPT ![owner] = st.cache]
    /\ ols_calls' = st.calls
    /\ ols_returned' = st.returned

OntologyText(kind, term, expected) == Finding("ontology-text", term, <<kind, expected>>)

HasHealthStatus(field_name) == field_name = "health_status_at_collection[0]"

\* the expected ontologies of validate_text_term_consistency
ExpectedOntologies(term, field_name, expected_ontologies) ==
    LET prefix == PrefixOf(ColonForm(term))
        by_prefix == IF expected_ontologies # <<>> THEN expected_ontologies
                     ELSE CASE prefix = "EFO"    -> <<"efo">>
                            [] prefix = "UBERON" -> <<"uberon">>
                            [] prefix = "BTO"    -> <<"bto">>
                            [] prefix = "PATO"   -> <<"pato">>
                            [] OTHER             -> <<>>
    IN CASE field_name = "developmental_stage" -> <<"efo", "uberon">>
         [] field_name = "organism_part"       -> <<"uberon", "bto">>
         [] HasHealthStatus(field_name)        -> <<"pato", "efo">>
         [] OTHER                              -> by_prefix

LabelsOf(ols_data) == [i \in 1..Len(ols_data) |-> Lower(ols_data[i].label)]

\* the warnings of validate_text_term_consistency once the term is fetched
TextTermWarnings(text, term, field_name, ols_data) ==
    IF ols_data = <<>> THEN <<OntologyText("term not found", term, "")>>
    ELSE LET expected == ExpectedOntologies(term, field_name, <<>>)
             kept == SelectSeq(ols_data, LAMBDA d :
                        /\ expected = <<>> \/ Lower(d.ontology_name) \in Range(expected)
                        /\ Lower(d.label) # "")
             term_labels == LabelsOf(kept)
         IN IF term_labels = <<>> THEN <<OntologyText("label not found", term, "")>>
            ELSE IF Lower(text) \notin Range(term_labels)
            THEN <<OntologyText("mismatch", term, term_labels[1])>>
            ELSE <<>>

FieldNames == {"developmental_stage", "organ_model"}

\* OntologyValidator.validate_text_term_consistency on the (text, term) pair
\* of one record
validate_text_term_consistency ==
    /\ \E i \in 1..Len(ontology_records), field_name \in FieldNames, oks \in [Queries -> BOOLEAN] :
          LET r == ontology_records[i]
          IN IF r.text = "" \/ r.term = "" \/ r.term \in SENTINELS
             THEN /\ text_consistency_errors' = NoResult
                  /\ UNCHANGED <<_cache, ols_calls, ols_returned>>
             ELSE /\ MayFetch("ontology", {r.term})
                  /\ LET st == AfterFetch(LookupState("ontology"), r.term, oks)
                         w == TextTermWarnings(r.text, r.term, field_name, st.docs)
                     IN /\ SetLookupState("ontology", st)
                        /\ text_consistency_errors' =
                              IF w = <<>> THEN NoResult ELSE (r.SampleName :> w)
    /\ last_op' = "validate_text_term_consistency"
    /\ UNCHANGED <<relVars, walkVars, ontology_records, ols_docs, orchVars, fetchVars, extractVars, uploadVars>>

\* fetch_ontology_data_for_ids of the organoid and specimen validators: the
\* lookup state after the loop, and the results it has collected
RECURSIVE fetch_ontology_data_for_ids(_, _, _, _, _)
fetch_ontology_data_for_ids(ids, skipped, st, results, oks) ==
    IF ids = {} THEN [st |-> st, results |-> results]
    ELSE LET term_id == CHOOSE t \in ids : TRUE
             rest == ids \ {term_id}
         IN IF term_id = "" \/ term_id \in skipped
            THEN fetch_ontology_data_for_ids(rest, skipped, st, results, oks)
            ELSE LET term_for_lookup == ColonForm(term_id)
                     after == AfterFetch(st, term_for_lookup, oks)
                 IN fetch_ontology_data_for_ids(rest, skipped, after,
                        IF after.docs # <<>> THEN (term_id :> after.docs) @@ results ELSE results,
                        oks)

\* collect_ontology_ids: the terms of the batch that are looked up
collect_ontology_ids(records) ==
    {records[i].term : i \in 1..Len(records)} \ {"", RESTRICTED}

\* OrganoidValidator._check_text_term_consistency_flattened
_check_text_term_consistency_flattened(text, term, ontology_data, field_name) ==
    IF text = "" \/ term = "" \/ term = RESTRICTED THEN <<>>
    ELSE IF term \notin DOMAIN ontology_data THEN <<OntologyText("term not found", term, "")>>
    ELSE LET prefix == PrefixOf(ColonForm(term))
             ontology_name == IF prefix \in {"UBERON", "BTO"} THEN prefix ELSE ""
             kept == SelectSeq(ontology_data[term], LAMBDA d :
                        ontology_name = "" \/ Lower(d.ontology_name) = Lower(ontology_name))
             term_labels == LabelsOf(kept)
         IN IF term_labels = <<>> THEN <<OntologyText("label not found", term, "")>>
            ELSE IF Lower(text) \notin Range(term_labels)
            THEN <<OntologyText("mismatch", term, term_labels[1])>>
            ELSE <<>>

\* SpecimenValidator._check_text_term_consistency: its body ends after the
\* sentinel test, so it returns None for every pair
SpecimenValidator_check_text_term_consistency(text, term, ontology_data, field_name) ==
    IF text = "" \/ term = "" \/ term \in SENTINELS THEN <<>> ELSE <<>>

\* the map a validate_ontology_text_consistency returns: the records with a
\* warning, each with its warnings (errors[i] are the warnings of record i)
TextConsistencyErrorsOf(records, errors) ==
    LET bad == {i \in 1..Len(records) : errors[i] # <<>>}
        at(n) == CHOOSE i \in bad : records[i].SampleName = n
    IN [n \in {records[i].SampleName : i \in bad} |-> errors[at(n)]]

\* OrganoidValidator.validate_ontology_text_consistency
OrganoidValidator_validate_ontology_text_consistency ==
    /\ ontology_records # <<>>
    /\ LET ids == collect_ontology_ids(ontology_records)
       IN /\ MayFetch("organoid", {ColonForm(t) : t \in ids})
          /\ \E oks \in [Queries -> BOOLEAN] :
                LET got == fetch_ontology_data_for_ids(ids, {RESTRICTED}, LookupState("organoid"), <<>>, oks)
                    errors_of(r) ==
                        IF r.text # "" /\ r.term # "" /\ r.term # RESTRICTED
                        THEN _check_text_term_consistency_flattened(r.text, r.term, got.results, "organ_model")
                        ELSE <<>>
                IN /\ SetLookupState("organoid", got.st)
                   /\ text_consistency_errors' = TextConsistencyErrorsOf(ontology_records,
                          [i \in 1..Len(ontology_records) |-> errors_of(ontology_records[i])])
    /\ last_op' = "OrganoidValidator.validate_ontology_text_consistency"
    /\ UNCHANGED <<relVars, walkVars, ontology_records, ols_docs, orchVars, fetchVars, extractVars, uploadVars>>

\* SpecimenValidator.validate_ontology_text_consistency
SpecimenValidator_validate_ontology_text_consistency ==
    /\ ontology_records # <<>>
    /\ LET ids == collect_ontology_ids(ontology_records)
       IN /\ MayFetch("specimen", {ColonForm(t) : t \in ids \ SENTINELS})
          /\ \E oks \in [Queries -> BOOLEAN] :
                LET got == fetch_ontology_data_for_ids(ids, SENTINELS, LookupState("specimen"), <<>>, oks)
                    errors_of(r) ==
                        IF r.text # "" /\ r.term # "" /\ r.term # RESTRICTED
                        THEN SpecimenValidator_check_text_term_consistency(r.text, r.term, got.results,
                                                                            "developmental_stage")
                        ELSE <<>>
                IN /\ SetLookupState("specimen", got.st)
                   /\ text_consistency_errors' = TextConsistencyErrorsOf(ontology_records,
                          [i \in 1..Len(ontology_records) |-> errors_of(ontology_records[i])])
    /\ last_op' = "SpecimenValidator.validate_ontology_text_consistency"
    /\ UNCHANGED <<relVars, walkVars, ontology_records, ols_docs, orchVars, fetchVars, extractVars, uploadVars>>

\* FAANGOrganismSample.validate_organism_term on the term of one record: a
\* lookup object made for this call (its cache starts empty and is dropped),
\* and OntologyValidator.validate_ontology_term on it
validate_organism_term ==
    /\ \E i \in 1..Len(ontology_records), oks \in [Queries -> BOOLEAN] :
          LET v == ontology_records[i].term
              name == ontology_records[i].SampleName
              term_with_colon == ColonForm(v)
          IN IF v = RESTRICTED
             THEN /\ text_consistency_errors' = NoResult
                  /\ UNCHANGED <<ols_calls, ols_returned>>
             ELSE IF PrefixOf(term_with_colon) # "NCBITaxon"
             THEN /\ text_consistency_errors' = (name :> <<Finding("field", v, <<"should be from NCBITaxon">>)>>)
                  /\ UNCHANGED <<ols_calls, ols_returned>>
             ELSE /\ ols_calls[QueryOf(term_with_colon)] < MaxCalls
                  /\ LET ov == [cache |-> <<>>, calls |-> ols_calls, returned |-> ols_returned, docs |-> <<>>]
                         st == AfterFetch(ov, term_with_colon, oks)
                     IN /\ ols_calls' = st.calls
                        /\ ols_returned' = st.returned
                        /\ text_consistency_errors' =
                              IF st.docs = <<>>
                              THEN (name :> <<Finding("field", v, <<"not found in OLS">>)>>)
                              ELSE NoResult
    /\ last_op' = "validate_organism_term"
    /\ UNCHANGED <<relVars, walkVars, ontology_records, ols_docs, _cache, orchVars, fetchVars, extractVars, uploadVars>>

\* the records of the ontology batch: a text and a term each
Texts == {"Adult", "juvenile", ""}

\* the terms of the batch: an identifier written with an underscore and with
\* a colon, another identifier, and two of the sentinels
TermIds == {"EFO_0001272", "EFO:0001272", "NCBITaxon_9823", RESTRICTED, "not applicable"}

OntologyRecord(name, text, term) == [SampleName |-> name, text |-> text, term |-> term]

\* the documents the service may hold for a query
DocSets(q) ==
    CASE q = "EFO_0001272" -> {<<>>, <<Doc("efo", "Adult")>>, <<Doc("ncit", "adult")>>}
      [] q = "NCBITaxon_9823" -> {<<>>, <<Doc("ncbitaxon", "Sus scrofa")>>}
      [] OTHER -> {<<>>}

InitOls ==
    /\ ontology_records \in
          {<<OntologyRecord("A", x, t)>> : x \in Texts, t \in TermIds}
          \cup {<<OntologyRecord("A", x, t), OntologyRecord("B", "Adult", u)>> :
                    x \in Texts, t \in TermIds, u \in TermIds}
    /\ _cache = [o \in Owners |-> <<>>]
    /\ ols_docs \in {f \in [Queries -> UNION {DocSets(q) : q \in Queries}] :
                        \A q \in Queries : f[q] \in DocSets(q)}
    /\ ols_calls = [q \in Queries |-> 0]
    /\ ols_returned = [q \in Queries |-> {}]
    /\ text_consistency_errors = NoResult
    /\ all_samples = <<>>
    /\ config = DefaultConfig(MaxDepth)
    /\ biosamples_cache = <<>>
    /\ relationship_graph = <<>>
    /\ validation_errors = NoResult
    /\ relationship_errors = NoResult
    /\ organism_results = NoResult
    /\ last_op = "none"
    /\ NoWalk
    /\ NoFetch
    /\ NoExtraction
    /\ NoUpload
    /\ NoValidation

NextOls ==
    \/ validate_text_term_consistency
    \/ OrganoidValidator_validate_ontology_text_consistency
    \/ SpecimenValidator_validate_ontology_text_consistency
    \/ validate_organism_term

SpecOls == InitOls /\ [][NextOls]_vars

----------------------------------------------------------------------------
(* The per-type validators: field validation of every record, then the      *)
(* relationship and ontology findings merged into the entries of the result *)

\* the methods BaseValidator defines
BaseValidatorMethods ==
    {"_initialize_validators", "get_model_class", "get_sample_type_name", "get_recommended_fields",
     "validate_record", "validate_records", "generate_validation_report"}

\* the methods RelationshipValidator defines
RelationshipValidatorMethods ==
    {"validate_relationships", "validate_all_relationships", "_build_relationship_graph",
     "_extract_sample_name", "_extract_material", "_extract_derived_from", "_extract_organism",
     "_collect_biosample_ids", "_validate_basic_relationships", "_detect_circular_references",
     "_validate_relationship_chains", "get_organism_identifier", "fetch_biosample_data",
     "_parse_biosample_response"}

\* the entry of a record in the valid_... or invalid_... list of a result
Entry(index, sample_name, warnings) ==
    [index |-> index, sample_name |-> sample_name, warnings |-> warnings,
     relationship_errors |-> <<>>, ontology_warnings |-> <<>>]

\* BaseValidator.validate_record, the warnings of it: one for a recommended
\* field the record leaves out, none for a record the field rules reject
\* (validate_record returns before it looks at the recommended fields)
validate_record_warnings(data, invalid_names, warned_names) ==
    IF data.SampleName \notin invalid_names /\ data.SampleName \in warned_names
    THEN <<"recommended field not provided">> ELSE <<>>

\* the records of one sample type, which the validator of the type is handed
SamplesOfType(samples, sample_type) == SelectSeq(samples, LAMBDA r : r.sample_type = sample_type)

\* BaseValidator.validate_records, and the same loop of
\* OrganoidPydanticValidator.validate_with_pydantic: an entry per record, in
\* the valid list unless the field rules reject the record
BaseValidator_validate_records(samples, invalid_names, warned_names) ==
    LET entries == [i \in 1..Len(samples) |->
                       Entry(i - 1, samples[i].SampleName,
                             validate_record_warnings(samples[i], invalid_names, warned_names))]
        valid == SelectSeq(entries, LAMBDA e : e.sample_name \notin invalid_names)
        invalid == SelectSeq(entries, LAMBDA e : e.sample_name \in invalid_names)
        \* `if errors['warnings']: results['summary']['warnings'] += 1`
        warned == SelectSeq(valid, LAMBDA e : e.warnings # <<>>)
    IN [raised |-> "", valid |-> valid, invalid |-> invalid,
        summary |-> Summary(Len(samples), Len(valid), Len(invalid), Len(warned), 0)]

\* `entry['relationship_errors'] = relationship_errors[sample_name]` for the
\* entries whose name the map holds
MergeRelationshipErrors(entries, rel_errors) ==
    [i \in 1..Len(entries) |->
        IF entries[i].sample_name \in DOMAIN rel_errors
        THEN [entries[i] EXCEPT !.relationship_errors = rel_errors[entries[i].sample_name]]
        ELSE entries[i]]

\* `entry['ontology_warnings'].extend(text_consistency_errors[sample_name])`
MergeOntologyWarnings(entries, text_errors) ==
    [i \in 1..Len(entries) |->
        IF entries[i].sample_name \in DOMAIN text_errors
        THEN [entries[i] EXCEPT !.ontology_warnings = @ \o text_errors[entries[i].sample_name]]
        ELSE entries[i]]

\* how many entries have their name in the map
Merged(entries, m) == Cardinality({i \in 1..Len(entries) : entries[i].sample_name \in DOMAIN m})

\* the (text, term) pairs of the records the validator is handed
OntologyRecordsOf(samples) ==
    SelectSeq(ontology_records, LAMBDA r : r.SampleName \in {samples[i].SampleName : i \in 1..Len(samples)})

\* OrganoidValidator / OrganoidPydanticValidator.validate_ontology_text_consistency
\* on the lookup state st: the state after it and the map it returns
OrganoidTextConsistency(records, st, oks) ==
    LET ids == collect_ontology_ids(records)
        got == fetch_ontology_data_for_ids(ids, {RESTRICTED}, st, <<>>, oks)
        errors_of(r) ==
            IF r.text # "" /\ r.term # "" /\ r.term # RESTRICTED
            THEN _check_text_term_consistency_flattened(r.text, r.term, got.results, "organ_model")
            ELSE <<>>
    IN [st |-> got.st,
        errors |-> TextConsistencyErrorsOf(records, [i \in 1..Len(records) |-> errors_of(records[i])])]

\* TeleosteiEmbryoValidator._check_text_term_consistency
TeleosteiEmbryoValidator_check_text_term_consistency(text, term, ontology_data, field_name) ==
    IF text = "" \/ term = "" \/ term = RESTRICTED THEN <<>>
    ELSE IF term \notin DOMAIN ontology_data THEN <<OntologyText("term not found", term, "")>>
    ELSE LET prefix == PrefixOf(ColonForm(term))
             ontology_name == IF prefix \in {"EFO", "UBERON", "BTO"} THEN prefix ELSE ""
             kept == SelectSeq(ontology_data[term], LAMBDA d :
                        ontology_name = "" \/ Lower(d.ontology_name) = Lower(ontology_name))
             term_labels == LabelsOf(kept)
         IN IF term_labels = <<>> THEN <<OntologyText("label not found", term, "")>>
            ELSE IF Lower(text) \notin Range(term_labels)
            THEN <<OntologyText("mismatch", term, term_labels[1])>>
            ELSE <<>>

\* TeleosteiEmbryoValidator.validate_ontology_text_consistency, the pair of a
\* record being its 'Developmental Stage' and the term of it
TeleosteiEmbryoTextConsistency(records, st, oks) ==
    LET ids == collect_ontology_ids(records)
        got == fetch_ontology_data_for_ids(ids, {RESTRICTED}, st, <<>>, oks)
        errors_of(r) ==
            IF r.text # "" /\ r.term # "" /\ r.term # RESTRICTED
            THEN TeleosteiEmbryoValidator_check_text_term_consistency(r.text, r.term, got.results,
                                                                      "developmental_stage")
            ELSE <<>>
    IN [st |-> got.st,
        errors |-> TextConsistencyErrorsOf(records, [i \in 1..Len(records) |-> errors_of(records[i])])]

\* a call that raises leaves no result and nothing else changed
Raise(exception, op) ==
    /\ validation_results' = Raised(exception)
    /\ last_op' = op
    /\ UNCHANGED <<relVars, olsVars, walkVars, field_invalid, field_warned, validate_args, fetchVars, extractVars, uploadVars>>

\* OrganoidPydanticValidator.validate_with_pydantic: the findings of both
\* checks go to the entries of the valid list only
OrganoidPydanticValidator_validate_with_pydantic ==
    LET organoids == SamplesOfType(all_samples, "organoid")
        base == BaseValidator_validate_records(organoids, field_invalid, field_warned)
        with_relationships == validate_args.validate_relationships /\ all_samples # <<>>
        rel_errors == IF with_relationships
                      THEN validate_derived_from_relationships_result(all_samples) ELSE NoResult
        records == OntologyRecordsOf(organoids)
    IN /\ validate_args.validate_ontology_text
          => MayFetch("organoid_pydantic", {ColonForm(t) : t \in collect_ontology_ids(records)})
       /\ \E oks \in [Queries -> BOOLEAN] :
             LET text == IF validate_args.validate_ontology_text
                         THEN OrganoidTextConsistency(records, LookupState("organoid_pydantic"), oks)
                         ELSE [st |-> LookupState("organoid_pydantic"), errors |-> NoResult]
                 valid == MergeOntologyWarnings(MergeRelationshipErrors(base.valid, rel_errors),
                                                text.errors)
             IN /\ SetLookupState("organoid_pydantic", text.st)
                /\ relationship_errors' = rel_errors
                /\ text_consistency_errors' = text.errors
                /\ validation_results' =
                      [base EXCEPT !.valid = valid,
                                   !.summary.relationship_errors = @ + Merged(base.valid, rel_errors),
                                   !.summary.warnings = @ + Merged(base.valid, text.errors)]
       /\ validation_errors' = NoResult
       /\ organism_results' = NoResult
       /\ last_op' = "OrganoidPydanticValidator.validate_with_pydantic"
       /\ UNCHANGED <<all_samples, config, biosamples_cache, relationship_graph,
                      ontology_records, ols_docs, walkVars, field_invalid, field_warned, validate_args, fetchVars, extractVars, uploadVars>>

\* OrganoidValidator.validate_samples: its first statement calls
\* super().validate_samples, which BaseValidator does not define
OrganoidValidator_validate_samples ==
    /\ "validate_samples" \notin BaseValidatorMethods
    /\ Raise("AttributeError", "OrganoidValidator.validate_samples")

\* SpecimenValidator.validate_samples: the same first statement
SpecimenValidator_validate_samples ==
    /\ "validate_samples" \notin BaseValidatorMethods
    /\ Raise("AttributeError", "SpecimenValidator.validate_samples")

\* TeleosteiEmbryoValidator.validate_records: the relationship branch calls
\* relationship_validator.validate_derived_from_relationships, which
\* RelationshipValidator does not define; without that branch the ontology
\* warnings go to the entries of the valid and of the invalid list
TeleosteiEmbryoValidator_validate_records ==
    LET sheet_records == SamplesOfType(all_samples, "teleostei_embryo")
        base == BaseValidator_validate_records(sheet_records, field_invalid, field_warned)
        records == OntologyRecordsOf(sheet_records)
    IN IF /\ validate_args.validate_relationships /\ all_samples # <<>>
          /\ "validate_derived_from_relationships" \notin RelationshipValidatorMethods
       THEN Raise("AttributeError", "TeleosteiEmbryoValidator.validate_records")
       ELSE /\ validate_args.validate_ontology_text
               => MayFetch("teleostei_embryo", {ColonForm(t) : t \in collect_ontology_ids(records)})
            /\ \E oks \in [Queries -> BOOLEAN] :
                  LET text == IF validate_args.validate_ontology_text
                              THEN TeleosteiEmbryoTextConsistency(records, LookupState("teleostei_embryo"), oks)
                              ELSE [st |-> LookupState("teleostei_embryo"), errors |-> NoResult]
                  IN /\ SetLookupState("teleostei_embryo", text.st)
                     /\ text_consistency_errors' = text.errors
                     /\ validation_results' =
                           [base EXCEPT !.valid = MergeOntologyWarnings(base.valid, text.errors),
                                        !.invalid = MergeOntologyWarnings(base.invalid, text.errors),
                                        !.summary.warnings = @ + Merged(base.valid, text.errors)]
            /\ relationship_errors' = NoResult
            /\ validation_errors' = NoResult
            /\ organism_results' = NoResult
            /\ last_op' = "TeleosteiEmbryoValidator.validate_records"
            /\ UNCHANGED <<all_samples, config, biosamples_cache, relationship_graph,
                           ontology_records, ols_docs, walkVars, field_invalid, field_warned, validate_args, fetchVars, extractVars, uploadVars>>

\* the kinds of the records the per-type validators are handed: sample type
\* and Material
ValidatorKinds ==
    {<<"organoid", "organoid">>,
     <<"specimen_from_organism", "specimen from organism">>,
     <<"teleostei_embryo", "specimen from organism">>}

\* a batch of a record A of one of the kinds, which lists nothing, B or an
\* identifier no record has, and an organism B; a (text, term) pair for A;
\* the field rules reject any of the records
InitValidators ==
    /\ all_samples \in
          {<<Record("A", k[1], k[2], "", "", c), Record("B", "organism", "organism", "Sus scrofa", "", <<>>)>> :
              k \in ValidatorKinds, c \in {<<>>, <<"B">>, <<"X">>}}
    /\ ontology_records \in {<<OntologyRecord("A", x, "EFO_0001272")>> : x \in {"Adult", "juvenile"}}
    /\ field_invalid \in SUBSET {"A", "B"}
    /\ field_warned \in SUBSET {"A", "B"}
    /\ validate_args \in {ValidateArgs(r, o) : r \in BOOLEAN, o \in BOOLEAN}
    /\ validation_results = Raised("")
    /\ _cache = [o \in Owners |-> <<>>]
    /\ ols_docs \in {f \in [Queries -> UNION {DocSets(q) : q \in Queries}] :
                        /\ f["EFO_0001272"] \in DocSets("EFO_0001272")
                        /\ f["NCBITaxon_9823"] = <<>>
                        /\ f["not applicable"] = <<>>}
    /\ ols_calls = [q \in Queries |-> 0]
    /\ ols_returned = [q \in Queries |-> {}]
    /\ text_consistency_errors = NoResult
    /\ config = DefaultConfig(MaxDepth)
    /\ biosamples_cache = <<>>
    /\ relationship_graph = <<>>
    /\ validation_errors = NoResult
    /\ relationship_errors = NoResult
    /\ organism_results = NoResult
    /\ last_op = "none"
    /\ NoWalk
    /\ NoFetch
    /\ NoExtraction
    /\ NoUpload

NextValidators ==
    \/ OrganoidPydanticValidator_validate_with_pydantic
    \/ OrganoidValidator_validate_samples
    \/ SpecimenValidator_validate_samples
    \/ TeleosteiEmbryoValidator_validate_records

SpecValidators == InitValidators /\ [][NextValidators]_vars

----------------------------------------------------------------------------
(* The batch fetches, one loop turn, request or response per step:          *)
(* RelationshipValidator.fetch_biosample_data and                           *)
(* OrganoidValidator.fetch_ontology_data_for_ids with fetch_from_ols        *)

\* the orders in which a loop may go through a set
Orderings(S) ==
    {order \in [1..Cardinality(S) -> S] :
        \A i, j \in 1..Cardinality(S) : i # j => order[i] # order[j]}

\* the call fetch_biosample_data(list(biosample_ids)) of validate_all_relationships
fetch_biosample_data_begin ==
    /\ fetch_pc = "idle"
    /\ config.enable_external_biosample_validation
    /\ _collect_biosample_ids(all_samples) # {}
    /\ fetch_pending' \in Orderings(_collect_biosample_ids(all_samples))
    /\ fetch_service' = "biosamples"
    /\ fetch_pc' = "loop"
    /\ UNCHANGED <<relVars, olsVars, walkVars, orchVars, in_flight, printed, fetch_results, requested, last_op, extractVars, uploadVars>>

\* a variant that does not wait for the answer before the next turn
fetch_biosample_data_next_unawaited ==
    /\ fetch_pc = "loop"
    /\ fetch_service = "biosamples"
    /\ fetch_pending # <<>>
    /\ IF Head(fetch_pending) \in DOMAIN biosamples_cache
       THEN UNCHANGED <<in_flight, requested>>
       ELSE /\ in_flight' = in_flight + 1
            /\ requested' = requested \cup {<<"biosamples", Head(fetch_pending)>>}
    /\ fetch_pending' = Tail(fetch_pending)
    /\ UNCHANGED <<relVars, olsVars, walkVars, orchVars, fetch_pc, fetch_service, printed, fetch_results, last_op, extractVars, uploadVars>>

\* one turn of the loop up to the request: a cached id is passed over, for
\* any other id requests.get is called
fetch_biosample_data_next ==
    /\ fetch_pc = "loop"
    /\ fetch_service = "biosamples"
    /\ fetch_pending # <<>>
    /\ IF Head(fetch_pending) \in DOMAIN biosamples_cache
       THEN /\ fetch_pending' = Tail(fetch_pending)
            /\ UNCHANGED <<fetch_pc, in_flight, requested>>
       ELSE /\ in_flight' = in_flight + 1
            /\ requested' = requested \cup {<<"biosamples", Head(fetch_pending)>>}
            /\ fetch_pc' = "request"
            /\ UNCHANGED fetch_pending
    /\ UNCHANGED <<relVars, olsVars, walkVars, orchVars, fetch_service, printed, fetch_results, last_op, extractVars, uploadVars>>

\* a variant whose request is not inside a try: a failure leaves the loop
fetch_biosample_data_response_uncaught ==
    /\ fetch_pc = "request"
    /\ fetch_service = "biosamples"
    /\ \E data \in Responses :
          LET sample_id == Head(fetch_pending)
          IN IF data.ok
             THEN /\ biosamples_cache' = (sample_id :> _parse_biosample_response(data)) @@ biosamples_cache
                  /\ fetch_pending' = Tail(fetch_pending)
                  /\ fetch_pc' = "loop"
             ELSE /\ fetch_pc' = "raised"
                  /\ UNCHANGED <<biosamples_cache, fetch_pending>>
    /\ in_flight' = in_flight - 1
    /\ UNCHANGED <<all_samples, config, relationship_graph, validation_errors, relationship_errors,
                   organism_results, olsVars, walkVars, orchVars, fetch_service, printed,
                   fetch_results, requested, last_op, extractVars, uploadVars>>

\* the answer to the request, or the exception it raises: a usable answer is
\* parsed and cached; another status and an exception are printed, a 200
\* answer with an 'error' body is passed over in silence; the loop goes on
fetch_biosample_data_response ==
    /\ fetch_pc = "request"
    /\ fetch_service = "biosamples"
    /\ \E data \in Responses :
          LET sample_id == Head(fetch_pending)
          IN IF data.ok
             THEN /\ biosamples_cache' = (sample_id :> _parse_biosample_response(data)) @@ biosamples_cache
                  /\ UNCHANGED printed
             ELSE /\ printed' \in {printed, Append(printed, <<"biosamples", sample_id>>)}
                  /\ UNCHANGED biosamples_cache
    /\ in_flight' = in_flight - 1
    /\ fetch_pending' = Tail(fetch_pending)
    /\ fetch_pc' = "loop"
    /\ UNCHANGED <<all_samples, config, relationship_graph, validation_errors, relationship_errors,
                   organism_results, olsVars, walkVars, orchVars, fetch_service, fetch_results, requested, last_op, extractVars, uploadVars>>

\* the loop of fetch_biosample_data is over
fetch_biosample_data_return ==
    /\ fetch_pc = "loop"
    /\ fetch_service = "biosamples"
    /\ fetch_pending = <<>>
    /\ fetch_pc' = "done"
    /\ UNCHANGED <<relVars, olsVars, walkVars, orchVars, fetch_service, fetch_pending, in_flight,
                   printed, fetch_results, requested, last_op, extractVars, uploadVars>>

\* the call fetch_ontology_data_for_ids(ids) of OrganoidValidator.collect_ontology_ids
fetch_ontology_data_for_ids_begin ==
    /\ fetch_pc = "idle"
    /\ ontology_records # <<>>
    /\ fetch_pending' \in Orderings(collect_ontology_ids(ontology_records))
    /\ fetch_service' = "ols"
    /\ fetch_pc' = "loop"
    /\ UNCHANGED <<relVars, olsVars, walkVars, orchVars, in_flight, printed, fetch_results, requested, last_op, extractVars, uploadVars>>

\* one turn of the loop up to the request of fetch_from_ols: the sentinel is
\* passed over, a cached term is answered from the cache
fetch_ontology_data_for_ids_next ==
    /\ fetch_pc = "loop"
    /\ fetch_service = "ols"
    /\ fetch_pending # <<>>
    /\ LET term_id == Head(fetch_pending)
           term_for_lookup == ColonForm(term_id)
       IN IF term_id = "" \/ term_id = RESTRICTED
          THEN /\ fetch_pending' = Tail(fetch_pending)
               /\ UNCHANGED <<fetch_pc, in_flight, fetch_results, ols_calls, requested>>
          ELSE IF cache_enabled /\ term_for_lookup \in DOMAIN _cache["organoid"]
          THEN /\ fetch_results' = IF _cache["organoid"][term_for_lookup] # <<>>
                                   THEN (term_id :> _cache["organoid"][term_for_lookup]) @@ fetch_results
                                   ELSE fetch_results
               /\ fetch_pending' = Tail(fetch_pending)
               /\ UNCHANGED <<fetch_pc, in_flight, ols_calls, requested>>
          ELSE /\ in_flight' = in_flight + 1
               /\ ols_calls' = [ols_calls EXCEPT ![QueryOf(term_for_lookup)] = @ + 1]
               /\ requested' = requested \cup {<<"ols", term_id>>}
               /\ fetch_pc' = "request"
               /\ UNCHANGED <<fetch_pending, fetch_results>>
    /\ UNCHANGED <<relVars, walkVars, orchVars, ontology_records, _cache, ols_docs, ols_returned,
                   text_consistency_errors, fetch_service, printed, last_op, extractVars, uploadVars>>

\* the answer to the request of fetch_from_ols, or the exception it raises:
\* the docs are cached and returned, or the failure is printed and [] returned
fetch_from_ols_response ==
    /\ fetch_pc = "request"
    /\ fetch_service = "ols"
    /\ \E ok \in BOOLEAN :
          LET term_id == Head(fetch_pending)
              term_for_lookup == ColonForm(term_id)
              f == fetch_from_ols(_cache["organoid"], term_for_lookup, ols_docs[QueryOf(term_for_lookup)], ok)
          IN /\ _cache' = [_cache EXCEPT !["organoid"] = f.cache]
             /\ ols_returned' = [ols_returned EXCEPT ![QueryOf(term_for_lookup)] = @ \cup {f.docs}]
             /\ printed' = IF ok THEN printed ELSE Append(printed, <<"ols", term_id>>)
             /\ fetch_results' = IF f.docs # <<>> THEN (term_id :> f.docs) @@ fetch_results
                                 ELSE fetch_results
    /\ in_flight' = in_flight - 1
    /\ fetch_pending' = Tail(fetch_pending)
    /\ fetch_pc' = "loop"
    /\ UNCHANGED <<relVars, walkVars, orchVars, ontology_records, ols_docs, ols_calls,
                   text_consistency_errors, fetch_service, requested, last_op, extractVars, uploadVars>>

\* the loop of fetch_ontology_data_for_ids is over
fetch_ontology_data_for_ids_return ==
    /\ fetch_pc = "loop"
    /\ fetch_service = "ols"
    /\ fetch_pending = <<>>
    /\ fetch_pc' = "done"
    /\ UNCHANGED <<relVars, olsVars, walkVars, orchVars, fetch_service, fetch_pending, in_flight,
                   printed, fetch_results, requested, last_op, extractVars, uploadVars>>

\* what a reference list of the fetched batch may hold: two external
\* identifiers and a local one
FetchRefTargets == {"SAMEA1", "SAMEA2", "B"}

\* a batch whose record A lists local and external identifiers and whose
\* records carry a (text, term) pair each; the validator may have cached one
\* external identifier before
InitFetch ==
    /\ all_samples \in
          {<<Record("A", "specimen_from_organism", "specimen from organism", "", "", c),
             Record("B", "organism", "organism", "Sus scrofa", "", <<>>)>> :
              c \in BSeq(FetchRefTargets, MaxRefs)}
    /\ config = DefaultConfig(MaxDepth)
    /\ biosamples_cache \in
          {<<>>, [id \in {"SAMEA1"} |-> [organism |-> "Sus scrofa", material |-> "organism"]]}
    /\ ontology_records \in
          {<<OntologyRecord("A", "Adult", t), OntologyRecord("B", "Adult", u)>> :
              t \in TermIds, u \in TermIds}
    /\ _cache = [o \in Owners |-> <<>>]
    /\ ols_docs \in {[q \in Queries |->
                          CASE q = "EFO_0001272" -> d
                            [] q = "NCBITaxon_9823" -> <<Doc("ncbitaxon", "Sus scrofa")>>
                            [] OTHER -> <<>>] :
                      d \in {<<>>, <<Doc("efo", "Adult")>>}}
    /\ ols_calls = [q \in Queries |-> 0]
    /\ ols_returned = [q \in Queries |-> {}]
    /\ text_consistency_errors = NoResult
    /\ relationship_graph = <<>>
    /\ validation_errors = NoResult
    /\ relationship_errors = NoResult
    /\ organism_results = NoResult
    /\ last_op = "none"
    /\ NoWalk
    /\ NoValidation
    /\ NoFetch
    /\ NoExtraction
    /\ NoUpload

NextFetch ==
    \/ fetch_biosample_data_begin
    \/ fetch_biosample_data_next
    \/ fetch_biosample_data_response
    \/ fetch_biosample_data_return
    \/ fetch_ontology_data_for_ids_begin
    \/ fetch_ontology_data_for_ids_next
    \/ fetch_from_ols_response
    \/ fetch_ontology_data_for_ids_return

SpecFetch == InitFetch /\ [][NextFetch]_vars /\ WF_vars(NextFetch)

----------------------------------------------------------------------------
(* The three _extract_derived_from, on a record given as the mapping it is: *)
(* a key may be absent, and its value is a string or a list of strings      *)

StrValue(s) == [is_list |-> FALSE, items |-> <<s>>]

ListValue(items) == [is_list |-> TRUE, items |-> items]

\* the 'Derived From' block: `derived_from and derived_from.strip()`; a list
\* has no strip, so a non-empty one raises
DerivedFromBlock(sample) ==
    IF "Derived From" \notin DOMAIN sample THEN Extracted("", <<>>)
    ELSE LET derived_from == sample["Derived From"]
         IN IF derived_from.is_list
            THEN IF derived_from.items = <<>> THEN Extracted("", <<>>)
                 ELSE Extracted("AttributeError", <<>>)
            ELSE IF NonBlank(derived_from.items[1])
            THEN Extracted("", <<Strip(derived_from.items[1])>>)
            ELSE Extracted("", <<>>)

\* the 'Child Of' block: the non-blank parents of a list, or a non-blank string
ChildOfBlock(sample) ==
    IF "Child Of" \notin DOMAIN sample THEN <<>>
    ELSE LET child_of == sample["Child Of"]
         IN IF child_of.is_list THEN StripList(child_of.items)
            ELSE IF NonBlank(child_of.items[1]) THEN <<Strip(child_of.items[1])>>
            ELSE <<>>

\* RelationshipValidator._extract_derived_from: both blocks, one after the other
RelationshipValidator_extract_derived_from(sample) ==
    LET d == DerivedFromBlock(sample)
    IN IF d.raised # "" THEN d
       ELSE Extracted("", SelectSeq(d.refs \o ChildOfBlock(sample), NonBlank))

\* OrganoidValidator._extract_derived_from: the same two blocks
OrganoidValidator_extract_derived_from(sample) ==
    LET d == DerivedFromBlock(sample)
    IN IF d.raised # "" THEN d
       ELSE Extracted("", SelectSeq(d.refs \o ChildOfBlock(sample), NonBlank))

\* OrganoidPydanticValidator._extract_derived_from: the 'Child Of' block is
\* inside the `if 'Derived From' in sample`
OrganoidPydanticValidator_extract_derived_from(sample) ==
    LET d == DerivedFromBlock(sample)
        c == IF "Derived From" \in DOMAIN sample THEN ChildOfBlock(sample) ELSE <<>>
    IN IF d.raised # "" THEN d
       ELSE Extracted("", SelectSeq(d.refs \o c, NonBlank))

call_RelationshipValidator_extract_derived_from ==
    /\ extracted' = RelationshipValidator_extract_derived_from(sample_dict)
    /\ last_op' = "RelationshipValidator._extract_derived_from"
    /\ UNCHANGED <<relVars, olsVars, walkVars, orchVars, fetchVars, sample_dict, uploadVars>>

call_OrganoidValidator_extract_derived_from ==
    /\ extracted' = OrganoidValidator_extract_derived_from(sample_dict)
    /\ last_op' = "OrganoidValidator._extract_derived_from"
    /\ UNCHANGED <<relVars, olsVars, walkVars, orchVars, fetchVars, sample_dict, uploadVars>>

call_OrganoidPydanticValidator_extract_derived_from ==
    /\ extracted' = OrganoidPydanticValidator_extract_derived_from(sample_dict)
    /\ last_op' = "OrganoidPydanticValidator._extract_derived_from"
    /\ UNCHANGED <<relVars, olsVars, walkVars, orchVars, fetchVars, sample_dict, uploadVars>>

\* the values of the two keys: strings empty, blank, padded and plain, and
\* lists of them
DerivedFromValues ==
    {StrValue(s) : s \in {"", " ", "B", " A"}} \cup {ListValue(l) : l \in {<<>>, <<"B">>}}

ChildOfValues ==
    {StrValue(s) : s \in {" ", "X"}} \cup {ListValue(l) : l \in BSeq({"", " ", "B", "X"}, MaxRefs)}

\* the mapping with the given keys present
SampleDicts ==
    {f \in UNION {[ks -> DerivedFromValues \cup ChildOfValues] : ks \in SUBSET {"Derived From", "Child Of"}} :
        /\ "Derived From" \in DOMAIN f => f["Derived From"] \in DerivedFromValues
        /\ "Child Of" \in DOMAIN f => f["Child Of"] \in ChildOfValues}

InitExtract ==
    /\ sample_dict \in SampleDicts
    /\ extracted = Extracted("", <<>>)
    /\ all_samples = <<>>
    /\ config = DefaultConfig(MaxDepth)
    /\ biosamples_cache = <<>>
    /\ relationship_graph = <<>>
    /\ validation_errors = NoResult
    /\ relationship_errors = NoResult
    /\ organism_results = NoResult
    /\ last_op = "none"
    /\ NoOntologyBatch
    /\ NoWalk
    /\ NoValidation
    /\ NoFetch
    /\ NoUpload

NextExtract ==
    \/ call_RelationshipValidator_extract_derived_from
    \/ call_OrganoidValidator_extract_derived_from
    \/ call_OrganoidPydanticValidator_extract_derived_from

SpecExtract == InitExtract /\ [][NextExtract]_vars

----------------------------------------------------------------------------
(* The walks of validate_all_relationships, one call or loop turn per step *)

\* a frame of has_cycle (visited, path) or of validate_chain (depth); i is
\* the position in the relationships the loop has reached, 0 on entry
Frame(current, depth, visited, path) ==
    [current |-> current, depth |-> depth, visited |-> visited, path |-> path, i |-> 0]

Top == call_stack[Len(call_stack)]

Pop == SubSeq(call_stack, 1, Len(call_stack) - 1)

ReplaceTop(f) == Append(Pop, f)

\* the first walk of a sample after its basic findings, and the walk after
\* the cycle detection, as the configuration enables them
AfterBasic(name, cfg) ==
    IF cfg.enable_circular_reference_detection
    THEN [pc |-> "has_cycle", call_stack |-> <<Frame(name, 0, {}, <<>>)>>]
    ELSE IF cfg.enable_relationship_chain_validation
    THEN [pc |-> "validate_chain", call_stack |-> <<Frame(name, 0, {}, <<>>)>>]
    ELSE [pc |-> "return", call_stack |-> <<>>]

AfterCycle(name, cfg) ==
    IF cfg.enable_relationship_chain_validation
    THEN [pc |-> "validate_chain", call_stack |-> <<Frame(name, 0, {}, <<>>)>>]
    ELSE [pc |-> "return", call_stack |-> <<>>]

\* validate_all_relationships reaches the body of one sample: the graph is
\* built and the basic findings of the sample are appended (a batch without
\* external identifiers: nothing is fetched)
walk_begin ==
    /\ pc = "idle"
    /\ \E k \in 1..Len(all_samples) :
          LET graph == _build_relationship_graph(all_samples)
              sample == all_samples[k]
              name == _extract_sample_name(sample)
              next == AfterBasic(name, config)
          IN /\ name # ""
             /\ relationship_graph' = graph
             /\ walk_sample' = name
             /\ walk_errors' = _validate_basic_relationships(sample, sample.sample_type, graph,
                                                             biosamples_cache, config)
             /\ pc' = next.pc
             /\ call_stack' = next.call_stack
    /\ UNCHANGED <<all_samples, config, biosamples_cache, validation_errors,
                   relationship_errors, organism_results, olsVars, last_op, orchVars, fetchVars, extractVars, uploadVars>>

\* one step of has_cycle: the entry of the innermost call, or one turn of its loop
has_cycle_step ==
    /\ pc = "has_cycle"
    /\ call_stack # <<>>
    /\ LET f == Top
           graph == relationship_graph
       IN IF f.i = 0
          THEN IF f.current \in f.visited
               THEN \* the cycle is returned through every caller
                    /\ walk_errors' = Append(walk_errors,
                          Finding("cycle", "",
                                  Append(SubSeq(f.path, IndexOf(f.path, f.current), Len(f.path)),
                                         f.current)))
                    /\ call_stack' = <<>>
               ELSE IF f.current \notin DOMAIN graph
               THEN /\ call_stack' = Pop
                    /\ UNCHANGED walk_errors
               ELSE /\ call_stack' = ReplaceTop([f EXCEPT !.visited = @ \cup {f.current},
                                                          !.path = Append(@, f.current),
                                                          !.i = 1])
                    /\ UNCHANGED walk_errors
          ELSE LET relationships == graph[f.current].relationships
               IN /\ UNCHANGED walk_errors
                  /\ IF f.i > Len(relationships) THEN call_stack' = Pop
                     ELSE IF relationships[f.i] = RESTRICTED
                     THEN call_stack' = ReplaceTop([f EXCEPT !.i = @ + 1])
                     ELSE call_stack' = Append(ReplaceTop([f EXCEPT !.i = @ + 1]),
                                               Frame(relationships[f.i], 0, f.visited, f.path))
    /\ UNCHANGED <<relVars, olsVars, pc, walk_sample, last_op, orchVars, fetchVars, extractVars, uploadVars>>

\* a cycle detection that takes the walked sample out of the graph when it returns
has_cycle_return_pruning ==
    /\ pc = "has_cycle"
    /\ call_stack = <<>>
    /\ pc' = AfterCycle(walk_sample, config).pc
    /\ call_stack' = AfterCycle(walk_sample, config).call_stack
    /\ relationship_graph' = [n \in DOMAIN relationship_graph \ {walk_sample} |-> relationship_graph[n]]
    /\ UNCHANGED <<all_samples, config, biosamples_cache, validation_errors,
                   relationship_errors, organism_results, olsVars,
                   walk_sample, walk_errors, last_op, orchVars, fetchVars, extractVars, uploadVars>>

\* _detect_circular_references has returned: the chain validation starts
has_cycle_return ==
    /\ pc = "has_cycle"
    /\ call_stack = <<>>
    /\ pc' = AfterCycle(walk_sample, config).pc
    /\ call_stack' = AfterCycle(walk_sample, config).call_stack
    /\ UNCHANGED <<relVars, olsVars, walk_sample, walk_errors, last_op, orchVars, fetchVars, extractVars, uploadVars>>

\* one step of validate_chain: the entry of the innermost call, or one turn of its loop
validate_chain_step ==
    /\ pc = "validate_chain"
    /\ call_stack # <<>>
    /\ LET f == Top
           graph == relationship_graph
       IN IF f.i = 0
          THEN IF depth_exceeds_maximum(f.depth, config)
               THEN /\ walk_errors' = Append(walk_errors, DepthExceeded)
                    /\ call_stack' = Pop
               ELSE IF f.current \notin DOMAIN graph
               THEN /\ call_stack' = Pop
                    /\ UNCHANGED walk_errors
               ELSE /\ call_stack' = ReplaceTop([f EXCEPT !.i = 1])
                    /\ UNCHANGED walk_errors
          ELSE LET current_data == graph[f.current]
                   relationships == current_data.relationships
                   ref == relationships[f.i]
               IN IF f.i > Len(relationships)
                  THEN /\ call_stack' = Pop
                       /\ UNCHANGED walk_errors
                  ELSE IF ref = RESTRICTED
                  THEN /\ call_stack' = ReplaceTop([f EXCEPT !.i = @ + 1])
                       /\ UNCHANGED walk_errors
                  ELSE /\ walk_errors' =
                             IF /\ current_data.sample_type = "organism"
                                /\ ref \in DOMAIN graph
                                /\ graph[ref].sample_type = "organism"
                                /\ current_data.organism # ""
                                /\ graph[ref].organism # ""
                                /\ current_data.organism # graph[ref].organism
                             THEN Append(walk_errors,
                                         Finding("species", ref,
                                                 <<f.current, current_data.organism, graph[ref].organism>>))
                             ELSE walk_errors
                       /\ call_stack' = Append(ReplaceTop([f EXCEPT !.i = @ + 1]),
                                               Frame(ref, f.depth + 1, {}, <<>>))
    /\ UNCHANGED <<relVars, olsVars, pc, walk_sample, last_op, orchVars, fetchVars, extractVars, uploadVars>>

\* _validate_relationship_chains has returned
validate_chain_return ==
    /\ pc = "validate_chain"
    /\ call_stack = <<>>
    /\ pc' = "return"
    /\ UNCHANGED <<relVars, olsVars, walk_sample, call_stack, walk_errors, last_op, orchVars, fetchVars, extractVars, uploadVars>>

\* the findings of the sample are stored under its identifier
walk_end ==
    /\ pc = "return"
    /\ pc' = "done"
    /\ validation_errors' = IF walk_errors # <<>> THEN (walk_sample :> walk_errors) ELSE NoResult
    /\ last_op' = "validate_all_relationships"
    /\ UNCHANGED <<all_samples, config, biosamples_cache, relationship_graph,
                   relationship_errors, organism_results, olsVars,
                   walk_sample, call_stack, walk_errors, orchVars, fetchVars, extractVars, uploadVars>>

\* the batches of the walks: two organisms of the same or of different
\* species, every configured depth up to the bound
WalkKinds == {<<"organism", "organism", "Bos taurus">>, <<"organism", "", "Sus scrofa">>}

InitWalk ==
    /\ all_samples \in
          {<<Record("A", k[1], k[2], k[3], "", ca), Record("B", "organism", "organism", "Bos taurus", "", cb)>> :
              k \in WalkKinds, ca \in BSeq({"A", "B", "X"}, MaxRefs),
              cb \in BSeq({"A", "X", RESTRICTED}, MaxRefs - 1)}
    /\ config \in {DefaultConfig(d) : d \in 0..MaxDepth}
    /\ biosamples_cache = <<>>
    /\ relationship_graph = <<>>
    /\ validation_errors = NoResult
    /\ relationship_errors = NoResult
    /\ organism_results = NoResult
    /\ last_op = "none"
    /\ NoOntologyBatch
    /\ NoWalk
    /\ NoFetch
    /\ NoExtraction
    /\ NoUpload
    /\ NoValidation

NextWalk ==
    \/ walk_begin
    \/ has_cycle_step
    \/ has_cycle_return
    \/ validate_chain_step
    \/ validate_chain_return
    \/ walk_end

\* the interpreter runs the calls to their end: a step that can be taken is taken
SpecWalk == InitWalk /\ [][NextWalk]_vars /\ WF_vars(NextWalk)

----------------------------------------------------------------------------
(* websocket_client: upload, process_file, broadcast, one await per step *)

MaxSize == 3        \* most bytes of an uploaded file

CHUNK == 2          \* the bytes one read asks for (1 << 20 in the source)

\* round(n / d, 1) in tenths, ties to the even tenth
RoundTenths(n, d) ==
    LET q == (10 * n) \div d
        r == (10 * n) % d
    IN IF 2 * r < d THEN q
       ELSE IF 2 * r > d THEN q + 1
       ELSE IF q % 2 = 0 THEN q ELSE q + 1

\* pct = round(done * 100 / max(1, total), 1), in tenths of a percent
pct(done, total) == RoundTenths(done * 100, IF total > 1 THEN total ELSE 1)

\* a variant of the read that always counts a whole chunk
read_chunk_whole(done, total) == IF done < total THEN CHUNK ELSE 0

\* len(f.read(1 << 20)) on the file upload wrote, done bytes of it read
read_chunk(done, total) == IF total - done < CHUNK THEN total - done ELSE CHUNK

Message(type, msg, percent) == [type |-> type, msg |-> msg, percent |-> percent]

StartedMessage == Message("status", "Started", 0)

ProgressMessage(percent) == Message("progress", "", percent)

ResultMessage == Message("result", "", 0)

DoneMessage == Message("status", "Done", 0)

ErrorMessage == Message("error", "", 0)

\* the task calls broadcast(message): the message is serialised and the loop
\* starts over a copy of clients
Broadcast(t, message, sockets) ==
    [t EXCEPT !.pc = "broadcast", !.log = Append(@, message), !.pending = sockets, !.dead = {}]

\* process_file from a read to its next await: the read raises and the
\* handler broadcasts the error, or the chunk is empty and the result is
\* broadcast, or the chunk is counted and the progress is broadcast
process_file_next(t, raised, sockets) ==
    IF raised THEN Broadcast([t EXCEPT !.failed = TRUE], ErrorMessage, sockets)
    ELSE LET chunk == read_chunk(t.done, t.total)
             done == t.done + chunk
         IN IF chunk = 0 THEN Broadcast(t, ResultMessage, sockets)
            ELSE Broadcast([t EXCEPT !.done = done], ProgressMessage(pct(done, t.total)), sockets)

\* ws_endpoint: a socket is accepted
ws_endpoint_accept ==
    /\ \E ws \in Sockets \ clients : clients' = clients \cup {ws}
    /\ UNCHANGED <<relVars, olsVars, walkVars, orchVars, fetchVars, extractVars, tasks, last_op>>

\* ws_endpoint: the socket disconnects
ws_endpoint_disconnect ==
    /\ \E ws \in clients : clients' = clients \ {ws}
    /\ UNCHANGED <<relVars, olsVars, walkVars, orchVars, fetchVars, extractVars, tasks, last_op>>

\* upload: the file is written to a temporary file, its bytes counted, and
\* the task is created
upload ==
    /\ \E f \in Files, size \in 0..MaxSize :
          /\ tasks[f].pc = "none"
          /\ tasks' = [tasks EXCEPT ![f] = Task("queued", size)]
    /\ UNCHANGED <<relVars, olsVars, walkVars, orchVars, fetchVars, extractVars, clients, last_op>>

\* process_file starts: its first statement broadcasts 'Started'
process_file_begin ==
    /\ \E f \in Files :
          /\ tasks[f].pc = "queued"
          /\ tasks' = [tasks EXCEPT ![f] = Broadcast(@, StartedMessage, clients)]
    /\ UNCHANGED <<relVars, olsVars, walkVars, orchVars, fetchVars, extractVars, clients, last_op>>

\* one turn of the loop of broadcast: `await ws.send_text(data)` returns or raises
broadcast_send ==
    /\ \E f \in Files, ok \in BOOLEAN :
          /\ tasks[f].pc = "broadcast"
          /\ \E ws \in tasks[f].pending :
                tasks' = [tasks EXCEPT ![f].pending = @ \ {ws},
                                       ![f].dead = IF ok THEN @ ELSE @ \cup {ws}]
    /\ UNCHANGED <<relVars, olsVars, walkVars, orchVars, fetchVars, extractVars, clients, last_op>>

\* broadcast discards the dead sockets and returns; process_file goes on to
\* its next await, or through `finally` to its end
broadcast_return ==
    /\ \E f \in Files, raised \in BOOLEAN :
          LET t == tasks[f]
              last == t.log[Len(t.log)]
              sockets == clients \ t.dead
          IN /\ t.pc = "broadcast"
             /\ t.pending = {}
             /\ clients' = sockets
             /\ tasks' = [tasks EXCEPT ![f] =
                   IF last = StartedMessage THEN process_file_next(t, raised, sockets)
                   ELSE IF last.type = "progress" THEN [t EXCEPT !.pc = "sleep"]
                   ELSE IF last = ResultMessage THEN Broadcast(t, DoneMessage, sockets)
                   ELSE [t EXCEPT !.pc = "finished"]]
    /\ UNCHANGED <<relVars, olsVars, walkVars, orchVars, fetchVars, extractVars, last_op>>

\* asyncio.sleep(0) returns and the loop reads on
process_file_read ==
    /\ \E f \in Files, raised \in BOOLEAN :
          /\ tasks[f].pc = "sleep"
          /\ tasks' = [tasks EXCEPT ![f] = process_file_next(@, raised, clients)]
    /\ UNCHANGED <<relVars, olsVars, walkVars, orchVars, fetchVars, extractVars, clients, last_op>>

InitUpload ==
    /\ all_samples = <<>>
    /\ config = DefaultConfig(MaxDepth)
    /\ biosamples_cache = <<>>
    /\ relationship_graph = <<>>
    /\ validation_errors = NoResult
    /\ relationship_errors = NoResult
    /\ organism_results = NoResult
    /\ last_op = "none"
    /\ NoOntologyBatch
    /\ NoWalk
    /\ NoValidation
    /\ NoFetch
    /\ NoExtraction
    /\ NoUpload

NextUpload ==
    \/ ws_endpoint_accept
    \/ ws_endpoint_disconnect
    \/ upload
    \/ process_file_begin
    \/ broadcast_send
    \/ broadcast_return
    \/ process_file_read

SpecUpload == InitUpload /\ [][NextUpload]_vars

----------------------------------------------------------------------------
(* Vocabulary of the properties *)

\* the identifiers of the batch
Names == {_extract_sample_name(all_samples[i]) : i \in 1..Len(all_samples)} \ {""}

RecordOf(n) == all_samples[CHOOSE i \in 1..Len(all_samples) : _extract_sample_name(all_samples[i]) = n]

\* the reference list of the node of identifier n
Refs(n) == _extract_derived_from(RecordOf(n))

\* the findings of identifier n in a finding map
FindingsOf(result, n) == IF n \in DOMAIN result THEN result[n] ELSE <<>>

\* how many findings of category cat about reference x identifier n has
CountFindings(result, n, cat, x) ==
    Cardinality({i \in 1..Len(FindingsOf(result, n)) :
                    FindingsOf(result, n)[i].cat = cat /\ FindingsOf(result, n)[i].ref = x})

HasCategory(result, n, cat) ==
    \E i \in 1..Len(FindingsOf(result, n)) : FindingsOf(result, n)[i].cat = cat

\* x is listed by n, is no node of the batch and is not resolved externally
MissingRef(n, x) ==
    /\ x \in Range(Refs(n))
    /\ x # RESTRICTED
    /\ x \notin Names
    /\ x \notin DOMAIN biosamples_cache

----------------------------------------------------------------------------
(* C1 *)

\* C1 as stated: a node A that lists a reference X which is no node of the
\* graph and does not resolve externally gets exactly one existence finding
\* about X, from the graph check and from the per-type check alike.
C1_ExactlyOneExistence ==
    \A n \in Names : \A x \in Range(Refs(n)) :
        MissingRef(n, x) =>
            /\ last_op = "validate_all_relationships"
                  => CountFindings(validation_errors, n, "existence", x) = 1
            /\ last_op = "validate_derived_from_relationships"
                  => CountFindings(relationship_errors, n, "existence", x) = 1

\* C1 amended: the checks emit one existence finding about X per occurrence of
\* X in the reference list of A (exactly one when X is listed once); the
\* per-type check emits none when the list of A also holds "restricted access";
\* the organism check does the same over the 'Child Of' list of an organism.
C1_ExistencePerOccurrence ==
    \A n \in Names : \A x \in Range(Refs(n)) :
        MissingRef(n, x) =>
            /\ last_op = "validate_all_relationships"
                  => CountFindings(validation_errors, n, "existence", x) = Count(Refs(n), x)
            /\ last_op = "validate_derived_from_relationships"
                  => CountFindings(relationship_errors, n, "existence", x) =
                        IF RESTRICTED \in Range(Refs(n)) THEN 0 ELSE Count(Refs(n), x)
            /\ (last_op = "validate_relationships" /\ RecordOf(n).sample_type = "organism")
                  => CountFindings(organism_results, n, "existence", x) =
                        Count(StripList(RecordOf(n).ChildOf), x)

\* C1 witness: the graph check has run on a batch where A lists the missing X
\* once, and A has its one existence finding
C1_Witness ==
    /\ last_op = "validate_all_relationships"
    /\ MissingRef("A", "X")
    /\ Count(Refs("A"), "X") = 1
    /\ CountFindings(validation_errors, "A", "existence", "X") = 1

----------------------------------------------------------------------------
(* Graph vocabulary *)

\* the nodes a node references, the sentinel and unknown identifiers left out
Succ(graph, a) ==
    {b \in Range(graph[a].relationships) : b # RESTRICTED /\ b \in DOMAIN graph}

RECURSIVE Closure(_, _, _)
Closure(graph, S, seen) ==
    LET more == (UNION {Succ(graph, a) : a \in seen} \cap S) \ seen
    IN IF more = {} THEN seen ELSE Closure(graph, S, seen \cup more)

\* the nodes of S reached from a by one or more references that stay inside S
ReachIn(graph, S, a) ==
    LET first == Succ(graph, a) \cap S
    IN IF first = {} THEN {} ELSE Closure(graph, S, first)

OnCycle(graph, a) == a \in ReachIn(graph, DOMAIN graph, a)

\* every cycle that can be reached from a passes through a
OnlyOwnCycles(graph, a) ==
    \A m \in ReachIn(graph, DOMAIN graph, a) \ {a} :
        m \notin ReachIn(graph, DOMAIN graph \ {a}, m)

\* p is a cycle of the graph: closed, every step a reference, every node of it
\* listed once before the repeated closing node
IsCyclePath(graph, p) ==
    /\ Len(p) >= 2
    /\ p[1] = p[Len(p)]
    /\ \A i \in 1..(Len(p) - 1) : p[i] \in DOMAIN graph /\ p[i + 1] \in Succ(graph, p[i])
    /\ \A i, j \in 1..(Len(p) - 1) : p[i] = p[j] => i = j

\* the cycle findings of identifier n in a finding map
CycleFindings(result, n) == SelectSeq(FindingsOf(result, n), LAMBDA f : f.cat = "cycle")

----------------------------------------------------------------------------
(* C2 *)

\* C2 as stated: every node on a reference cycle (a self-reference included)
\* receives a cycle finding whose path lists the nodes of the cycle the node
\* is on, each once, followed by the repeated closing node.
C2_PathOfOwnCycle ==
    last_op = "validate_all_relationships" =>
        \A n \in DOMAIN relationship_graph :
            OnCycle(relationship_graph, n) =>
                \E i \in 1..Len(CycleFindings(validation_errors, n)) :
                    LET p == CycleFindings(validation_errors, n)[i].detail
                    IN IsCyclePath(relationship_graph, p) /\ n \in Range(p)

\* C2 amended: every node on a reference cycle receives exactly one cycle
\* finding; its path is a cycle of the graph, each node of it listed once and
\* followed by the repeated closing node; the path starts and ends at the node
\* itself when every cycle reachable from the node passes through it.  The
\* organism check reports a mutual reference and a self-reference of organisms.
C2_CycleFinding ==
    /\ last_op = "validate_all_relationships" =>
          \A n \in DOMAIN relationship_graph :
              OnCycle(relationship_graph, n) =>
                  /\ Len(CycleFindings(validation_errors, n)) = 1
                  /\ IsCyclePath(relationship_graph, CycleFindings(validation_errors, n)[1].detail)
                  /\ OnlyOwnCycles(relationship_graph, n) =>
                        CycleFindings(validation_errors, n)[1].detail[1] = n
    /\ last_op = "validate_relationships" =>
          \A n, m \in Names :
              (/\ RecordOf(n).sample_type = "organism"
               /\ RecordOf(m).sample_type = "organism"
               /\ RESTRICTED \notin {n, m}
               /\ m \in Range(StripList(RecordOf(n).ChildOf))
               /\ n \in Range(StripList(RecordOf(m).ChildOf)))
              => \E i \in 1..Len(FindingsOf(organism_results, n)) :
                    FindingsOf(organism_results, n)[i] = ParentListsChild(m)

\* C2 witness: A and B reference each other and nothing else, the graph check
\* has run, and A carries the path A -> B -> A
C2_Witness ==
    /\ last_op = "validate_all_relationships"
    /\ Refs("A") = <<"B">>
    /\ Refs("B") = <<"A">>
    /\ \E i \in 1..Len(FindingsOf(validation_errors, "A")) :
          FindingsOf(validation_errors, "A")[i] = Finding("cycle", "", <<"A", "B", "A">>)
    /\ \E i \in 1..Len(FindingsOf(validation_errors, "B")) :
          FindingsOf(validation_errors, "B")[i] = Finding("cycle", "", <<"B", "A", "B">>)

----------------------------------------------------------------------------
(* C3 *)

NoLineageFinding(result, n) ==
    \A i \in 1..Len(FindingsOf(result, n)) :
        FindingsOf(result, n)[i].cat \notin {"existence", "material", "species"}

\* C3: a node whose reference list is exactly ["restricted access"] never
\* receives an existence, material or species finding from any of the checks,
\* whatever the rest of the batch, the cache and the configuration are.
C3_RestrictedOnly ==
    \A n \in Names :
        Refs(n) = <<RESTRICTED>> =>
            /\ last_op = "validate_all_relationships" => NoLineageFinding(validation_errors, n)
            /\ last_op = "validate_derived_from_relationships" => NoLineageFinding(relationship_errors, n)
            /\ last_op = "validate_relationships" => NoLineageFinding(organism_results, n)

\* C3 witness: the graph check has run under a non-default configuration and a
\* filled cache on a batch where A lists only the sentinel while B, which
\* lists A, has findings; A has none
C3_Witness ==
    /\ last_op = "validate_all_relationships"
    /\ Refs("A") = <<RESTRICTED>>
    /\ ~config.treat_missing_biosamples_as_errors
    /\ DOMAIN biosamples_cache # {}
    /\ "A" \notin DOMAIN validation_errors
    /\ "B" \in DOMAIN validation_errors

----------------------------------------------------------------------------
(* C4 *)

\* the material kind of the node of identifier n: its declared Material, or
\* the name of its sample type when none is declared
KindOf(n) == _extract_material(RecordOf(n), RecordOf(n).sample_type)

\* C4: for a node that is checked (no sentinel in its list) and a reference to
\* a sample of the batch, the checks emit no material finding when the kind of
\* the referenced sample is an allowed parent of the kind of the node in the
\* static table, and a material finding when it is not.
C4_TableRespected ==
    \A n \in Names : \A r \in Range(Refs(n)) \cap Names :
        RESTRICTED \notin Range(Refs(n)) =>
            LET allowed == KindOf(r) \in Range(ALLOWED_RELATIONSHIPS(KindOf(n)))
            IN /\ last_op = "validate_all_relationships" =>
                     (allowed <=> CountFindings(validation_errors, n, "material", r) = 0)
               /\ last_op = "validate_derived_from_relationships" =>
                     (allowed <=> CountFindings(relationship_errors, n, "material", r) = 0)

----------------------------------------------------------------------------
(* C5 *)

\* the batch of the scenario: an organism without references and without a
\* declared Material (B in the place of O1), and a 'specimen from organism'
\* whose only reference is that organism (A in the place of S1)
ValidLineageBatch ==
    all_samples = <<Record("A", "specimen_from_organism", "specimen from organism", "", "", <<"B">>),
                    Record("B", "organism", "", "Sus scrofa", "", <<>>)>>

\* C5: on the valid-lineage batch every relationship check returns no finding
\* for either record.
C5_ValidLineageNoFindings ==
    (ValidLineageBatch /\ last_op # "none") =>
        /\ validation_errors = NoResult
        /\ relationship_errors = NoResult
        /\ organism_results = NoResult

----------------------------------------------------------------------------
(* C6 *)

RECURSIVE IsSubsequence(_, _)
IsSubsequence(s, t) ==
    IF s = <<>> THEN TRUE
    ELSE IF t = <<>> THEN FALSE
    ELSE IF Head(s) = Head(t) THEN IsSubsequence(Tail(s), Tail(t))
    ELSE IsSubsequence(s, Tail(t))

NonDecreasing(ranks) == \A i, j \in 1..Len(ranks) : i < j => ranks[i] <= ranks[j]

\* the references named by the findings of n of the given categories, in order
RefsNamed(result, n, cats) ==
    LET fs == SelectSeq(FindingsOf(result, n), LAMBDA f : f.cat \in cats)
    IN [i \in 1..Len(fs) |-> fs[i].ref]

\* the order the claim states
ClaimedRank(f) ==
    CASE f.cat = "existence" -> 1
      [] f.cat = "material"  -> 2
      [] f.cat = "species"   -> 3
      [] OTHER               -> 4

\* the order of the calls in validate_all_relationships
CallRank(f) ==
    CASE f.cat \in {"existence", "material"} -> 1
      [] f.cat = "cycle"                     -> 2
      [] OTHER                               -> 3

\* C6 as stated: the findings of one node come in the order existence, then
\* material, then species, then cycle, and within a category they follow the
\* reference list.
C6_ClaimedOrder ==
    last_op = "validate_all_relationships" =>
        \A n \in DOMAIN validation_errors :
            /\ NonDecreasing([i \in 1..Len(validation_errors[n]) |-> ClaimedRank(validation_errors[n][i])])
            /\ IsSubsequence(RefsNamed(validation_errors, n, {"existence"}), Refs(n))
            /\ IsSubsequence(RefsNamed(validation_errors, n, {"material"}), Refs(n))

\* C6 amended: the findings validate_all_relationships returns for one node
\* come in the order of its three calls: first the existence and material
\* findings, together in the order of the reference list (one reference gets
\* at most one of the two), then the cycle finding, then the species and
\* depth findings of the chain walk.
C6_CallOrder ==
    last_op = "validate_all_relationships" =>
        \A n \in DOMAIN validation_errors :
            /\ NonDecreasing([i \in 1..Len(validation_errors[n]) |-> CallRank(validation_errors[n][i])])
            /\ IsSubsequence(RefsNamed(validation_errors, n, {"existence", "material"}), Refs(n))

\* C6 witness: a node with a material finding for its first reference, an
\* existence finding for its second, a cycle finding and a finding of the walk
C6_Witness ==
    /\ last_op = "validate_all_relationships"
    /\ \E n \in DOMAIN validation_errors :
          /\ Len(validation_errors[n]) >= 4
          /\ validation_errors[n][1].cat = "material"
          /\ validation_errors[n][2].cat = "existence"
          /\ validation_errors[n][3].cat = "cycle"
          /\ validation_errors[n][4].cat \in {"species", "depth"}

----------------------------------------------------------------------------
(* C9 *)

\* C9: a node with the sentinel anywhere in its reference list is skipped as
\* a whole: it receives no existence and no material finding.
C9_WholeNodeSkipped ==
    \A n \in Names :
        RESTRICTED \in Range(Refs(n)) =>
            /\ last_op = "validate_all_relationships" =>
                  ~HasCategory(validation_errors, n, "existence")
                  /\ ~HasCategory(validation_errors, n, "material")
            /\ last_op = "validate_derived_from_relationships" =>
                  ~HasCategory(relationship_errors, n, "existence")
                  /\ ~HasCategory(relationship_errors, n, "material")

----------------------------------------------------------------------------
(* C7 *)

\* C7: within a run, a term that has been resolved, once or several times and
\* by whichever validators, has caused exactly one request to the service,
\* and every resolution of it has returned the same result.
C7_OneCallIdenticalResults ==
    \A q \in DOMAIN ols_returned :
        ols_returned[q] # {} =>
            /\ ols_calls[q] = 1
            /\ Cardinality(ols_returned[q]) = 1

----------------------------------------------------------------------------
(* C8 *)

\* the owner holds the term resolved, with the label set {"adult"} from an
\* expected ontology
ResolvedAdult(owner, key) ==
    /\ key \in DOMAIN _cache[owner]
    /\ _cache[owner][key] = <<Doc("efo", "Adult")>>

\* the warnings a record of this text must get once its term is resolved to
\* the label set {"adult"}
AdultWarnings(text, term) ==
    IF text = "juvenile" THEN <<OntologyText("mismatch", term, "adult")>> ELSE <<>>

\* C8: with the term of a record resolved to the label set {"adult"}, each
\* ontology-text check gives the record no warning when its text is "Adult"
\* and exactly one warning, naming "adult" as the expected label, when its
\* text is "juvenile".
C8_AdultLabel ==
    \A i \in 1..Len(ontology_records) :
        LET r == ontology_records[i]
            given == FindingsOf(text_consistency_errors, r.SampleName)
        IN (r.text # "" /\ r.term = "EFO_0001272") =>
              /\ (/\ last_op = "validate_text_term_consistency"
                  /\ Len(ontology_records) = 1
                  /\ ResolvedAdult("ontology", r.term))
                    => given = AdultWarnings(r.text, r.term)
              /\ (/\ last_op = "OrganoidValidator.validate_ontology_text_consistency"
                  /\ ResolvedAdult("organoid", ColonForm(r.term)))
                    => given = AdultWarnings(r.text, r.term)
              /\ (/\ last_op = "SpecimenValidator.validate_ontology_text_consistency"
                  /\ ResolvedAdult("specimen", ColonForm(r.term)))
                    => given = AdultWarnings(r.text, r.term)

----------------------------------------------------------------------------
(* C10 *)

\* the references followed from identifier n in a graph
Followed(n, graph) ==
    IF n \in DOMAIN graph THEN Range(graph[n].relationships) \ {RESTRICTED} ELSE {}

\* a chain of k more hops can be followed from n without coming back to a
\* node of seen
RECURSIVE SimpleChain(_, _, _, _)
SimpleChain(n, k, seen, graph) ==
    IF k = 0 THEN TRUE
    ELSE \E r \in Followed(n, graph) \ seen : SimpleChain(r, k - 1, seen \cup {r}, graph)

\* a chain of k more hops can be followed from n at all
RECURSIVE AnyChain(_, _, _)
AnyChain(n, k, graph) ==
    IF k = 0 THEN TRUE
    ELSE \E r \in Followed(n, graph) : AnyChain(r, k - 1, graph)

\* the walks of the sample have returned and give what the calls give
WalkReturned ==
    pc = "done"

DepthRule ==
    LET max == config.max_relationship_depth
        reported == \E i \in 1..Len(walk_errors) : walk_errors[i] = DepthExceeded
    IN /\ SimpleChain(walk_sample, max + 1, {walk_sample}, relationship_graph) => reported
       /\ ~AnyChain(walk_sample, max + 1, relationship_graph) => ~reported

\* C10: on every batch, cyclic or not, the walks of a sample return; and then
\* the sample has a depth-exceeded finding if a chain of more than
\* max_relationship_depth hops can be followed from it without closing a
\* cycle, and has none if no chain of more than max_relationship_depth hops
\* can be followed from it.
C10_TerminatesWithDepthRule ==
    /\ <>WalkReturned
    /\ [](WalkReturned => DepthRule)

\* C10 witness: on a batch that holds a self-reference, the walks of a sample
\* have returned; a chain longer than the maximum that closes no cycle can be
\* followed from the sample, and it has its depth-exceeded finding
C10_Witness ==
    /\ WalkReturned
    /\ SimpleChain(walk_sample, config.max_relationship_depth + 1, {walk_sample}, relationship_graph)
    /\ \E i \in 1..Len(walk_errors) : walk_errors[i] = DepthExceeded
    /\ \E n \in DOMAIN relationship_graph : n \in Followed(n, relationship_graph)

\* the steps append what the calls return
WalkGivesSampleErrors ==
    WalkReturned =>
        walk_errors = SampleErrors(RecordOf(walk_sample), relationship_graph, biosamples_cache, config)

----------------------------------------------------------------------------
(* C11 *)

\* reference x of n is skipped by the flag: it carries the prefix of an
\* external identifier and missing external samples are not errors
SkippedByFlag(x) ==
    StartsWithSAM(Upper(x)) /\ ~config.treat_missing_biosamples_as_errors

\* C11: after the graph check, a reference that is no node of the graph and
\* is not held resolved in the cache (nothing is fetched when external
\* resolution is disabled) has an existence finding, unless
\* treat_missing_biosamples_as_errors is false and the reference carries the
\* external-identifier prefix: then it has no finding at all.
C11_MissingReference ==
    last_op = "validate_all_relationships" =>
        \A n \in Names : \A x \in Range(Refs(n)) :
            MissingRef(n, x) =>
                IF SkippedByFlag(x)
                THEN \A i \in 1..Len(FindingsOf(validation_errors, n)) :
                        FindingsOf(validation_errors, n)[i].ref # x
                ELSE CountFindings(validation_errors, n, "existence", x) >= 1

\* C11 witness: with the flag off, the graph check has run on a node that
\* lists an unresolved external identifier and a missing local one: the
\* first has no finding, the second its existence finding
C11_Witness ==
    /\ last_op = "validate_all_relationships"
    /\ ~config.treat_missing_biosamples_as_errors
    /\ MissingRef("A", "SAMEA1")
    /\ MissingRef("A", "X")
    /\ CountFindings(validation_errors, "A", "existence", "SAMEA1") = 0
    /\ CountFindings(validation_errors, "A", "existence", "X") = 1

----------------------------------------------------------------------------
(* C12 *)

\* C12: whichever relationship check has run, no sample has an existence
\* finding about an identifier that some record of the batch carries, whatever
\* the sample type of that record.
C12_WholeBatchGraph ==
    \A n \in Names : \A x \in Names :
        /\ CountFindings(validation_errors, n, "existence", x) = 0
        /\ CountFindings(relationship_errors, n, "existence", x) = 0
        /\ CountFindings(organism_results, n, "existence", x) = 0


----------------------------------------------------------------------------
(* C13 *)

\* the sample type whose validator ran last
TypeOfLastOp ==
    CASE last_op \in {"OrganoidPydanticValidator.validate_with_pydantic",
                      "OrganoidValidator.validate_samples"} -> "organoid"
      [] last_op = "SpecimenValidator.validate_samples" -> "specimen_from_organism"
      [] last_op = "TeleosteiEmbryoValidator.validate_records" -> "teleostei_embryo"
      [] OTHER -> ""

\* the records the validator that ran last was handed and whose field
\* validation failed
InvalidOfLastOp ==
    {n \in field_invalid :
        \E i \in 1..Len(all_samples) : /\ all_samples[i].SampleName = n
                                       /\ all_samples[i].sample_type = TypeOfLastOp}

\* the entries of identifier n in the result, valid or invalid
EntriesOf(n) ==
    {e \in Range(validation_results.valid) \cup Range(validation_results.invalid) : e.sample_name = n}

\* the relationship findings the per-type check gives for the batch, when the
\* validator that ran last was asked for them and has such a check
RelationshipFindingsDue ==
    IF validate_args.validate_relationships /\ TypeOfLastOp \in {"organoid", "specimen_from_organism"}
    THEN validate_derived_from_relationships_result(all_samples)
    ELSE NoResult

\* C13: after a per-type validator has run, every record it was handed whose
\* field validation failed has an entry carrying the relationship findings
\* the check gives for it and the ontology warnings found for it
C13_InvalidStillReceivesFindings ==
    TypeOfLastOp # "" =>
        \A n \in InvalidOfLastOp :
            /\ n \in DOMAIN RelationshipFindingsDue =>
                  \E e \in EntriesOf(n) : e.relationship_errors = RelationshipFindingsDue[n]
            /\ n \in DOMAIN text_consistency_errors =>
                  \E e \in EntriesOf(n) : e.ontology_warnings = text_consistency_errors[n]


----------------------------------------------------------------------------
(* C14 *)

\* the keys the batch fetch that runs has to resolve
FetchKeys ==
    IF fetch_service = "biosamples" THEN _collect_biosample_ids(all_samples)
    ELSE collect_ontology_ids(ontology_records)

\* the cache of the service has an entry under the lookup key of the key
FetchCached(k) ==
    IF fetch_service = "biosamples" THEN k \in DOMAIN biosamples_cache
    ELSE ColonForm(k) \in DOMAIN _cache["organoid"]

\* the caller has a result for the key
FetchResolved(k) ==
    IF fetch_service = "biosamples" THEN k \in DOMAIN biosamples_cache
    ELSE k \in DOMAIN fetch_results

\* a failure of the request for the key was printed
FetchFailed(k) == \E i \in 1..Len(printed) : printed[i] = <<fetch_service, k>>

\* C14: a batch fetch never leaves its loop with an error, and once it has
\* returned every key of the batch was answered from the cache or requested,
\* whatever became of the other requests, and the caller has no result for a
\* key whose request failed
C14_FailureIsolated ==
    /\ fetch_pc \in {"idle", "loop", "request", "done"}
    /\ fetch_pc = "done" =>
          \A k \in FetchKeys :
              /\ FetchCached(k) \/ <<fetch_service, k>> \in requested
              /\ FetchFailed(k) => ~FetchResolved(k)

C14_Witness ==
    /\ fetch_pc = "done"
    /\ fetch_service = "biosamples"
    /\ FetchFailed("SAMEA1") /\ ~FetchResolved("SAMEA1")
    /\ FetchResolved("SAMEA2") /\ <<"biosamples", "SAMEA2">> \in requested

----------------------------------------------------------------------------
(* C15 *)

\* C15: at every moment of a batch fetch at most one request is in flight,
\* the loop waiting for each answer before its next turn: the number of
\* outbound calls never exceeds a pool of any size, the default of 10 included
C15_BoundedInFlight == in_flight \in 0..1 /\ in_flight <= 10

C15_Witness ==
    /\ fetch_pc = "request"
    /\ in_flight = 1
    /\ Len(fetch_pending) = 2


----------------------------------------------------------------------------
(* C16 *)

\* C16: the cache of a lookup object never holds two entries for one
\* identifier, the one written PREFIX_1234 and the other PREFIX:1234: the
\* second of the two resolutions finds the entry of the first
C16_NormalizedCacheKey ==
    \A o \in Owners : \A k1, k2 \in DOMAIN _cache[o] :
        QueryOf(k1) = QueryOf(k2) => k1 = k2


----------------------------------------------------------------------------
(* C17 *)

TextConsistencyOps ==
    {"validate_text_term_consistency",
     "OrganoidValidator.validate_ontology_text_consistency",
     "SpecimenValidator.validate_ontology_text_consistency"}

\* the pair of the record is one the ontology check has to pass over
SkippedPair(r) == r.text = "" \/ r.term = "" \/ r.term \in SENTINELS

\* C17: a step of an ontology check gives no warning to a record whose term
\* is one of the four sentinels or whose text or term is empty, and sends no
\* request for a query that only such records of the batch have
C17_SentinelTermsSkipped ==
    [][last_op' \in TextConsistencyOps =>
          /\ \A i \in 1..Len(ontology_records) :
                SkippedPair(ontology_records[i])
                    => ontology_records[i].SampleName \notin DOMAIN text_consistency_errors'
          /\ \A q \in Queries :
                (\A i \in 1..Len(ontology_records) :
                    QueryOf(ColonForm(ontology_records[i].term)) = q => SkippedPair(ontology_records[i]))
                    => ols_calls'[q] = ols_calls[q]]_vars


----------------------------------------------------------------------------
(* C18 *)

\* the text of the record of identifier n in the ontology batch
TextOf(n) ==
    ontology_records[CHOOSE i \in 1..Len(ontology_records) : ontology_records[i].SampleName = n].text

\* every label the service holds for the term, whatever its source
UnfilteredLabels(term) == Range(LabelsOf(ols_docs[QueryOf(ColonForm(term))]))

\* C18: after an ontology check no record is warned that its term has no
\* label of the expected sources while its text equals, letter case aside,
\* a label the service holds for the term under another source
C18_FallbackToAllLabels ==
    last_op \in TextConsistencyOps =>
        \A n \in DOMAIN text_consistency_errors :
            \A i \in 1..Len(text_consistency_errors[n]) :
                LET w == text_consistency_errors[n][i]
                IN (w.cat = "ontology-text" /\ w.detail[1] = "label not found")
                      => Lower(TextOf(n)) \notin UnfilteredLabels(w.ref)


----------------------------------------------------------------------------
(* C19 *)

\* the lookup object of the check that ran last, and the key it caches a term under
OwnerOfLastOp ==
    CASE last_op = "OrganoidValidator.validate_ontology_text_consistency" -> "organoid"
      [] last_op = "SpecimenValidator.validate_ontology_text_consistency" -> "specimen"
      [] OTHER -> "ontology"

KeyOfLastOp(term) == IF OwnerOfLastOp = "ontology" THEN term ELSE ColonForm(term)

\* the check that ran last has no document for the term: its request failed
\* or the service holds nothing
Unresolved(term) ==
    \/ KeyOfLastOp(term) \notin DOMAIN _cache[OwnerOfLastOp]
    \/ _cache[OwnerOfLastOp][KeyOfLastOp(term)] = <<>>

\* the check that ran last went through every record of the batch
WholeBatchChecked ==
    \/ last_op \in {"OrganoidValidator.validate_ontology_text_consistency",
                    "SpecimenValidator.validate_ontology_text_consistency"}
    \/ last_op = "validate_text_term_consistency" /\ Len(ontology_records) = 1

\* C19: after an ontology check every record whose text and term are both
\* given, whose term is no sentinel and whose term did not resolve carries a
\* 'term not found' warning naming the term
C19_UnresolvedTermWarned ==
    WholeBatchChecked =>
        \A i \in 1..Len(ontology_records) :
            LET r == ontology_records[i]
            IN (~SkippedPair(r) /\ Unresolved(r.term)) =>
                  \E j \in 1..Len(FindingsOf(text_consistency_errors, r.SampleName)) :
                      /\ FindingsOf(text_consistency_errors, r.SampleName)[j].ref = r.term
                      /\ FindingsOf(text_consistency_errors, r.SampleName)[j].detail[1] = "term not found"


----------------------------------------------------------------------------
(* C20 *)

ExtractOps ==
    {"RelationshipValidator._extract_derived_from",
     "OrganoidValidator._extract_derived_from",
     "OrganoidPydanticValidator._extract_derived_from"}

\* the values of a key of the record, one for a string and all for a list
ValuesOf(key) == IF key \in DOMAIN sample_dict THEN sample_dict[key].items ELSE <<>>

\* C20: an _extract_derived_from returns, in their order and with their
\* repetitions, the non-blank values of 'Derived From' and then of
\* 'Child Of', whichever of the two keys the record has and whether the
\* value is a string or a list
C20_AllValuesKept ==
    last_op \in ExtractOps =>
        extracted = Extracted("", StripList(ValuesOf("Derived From") \o ValuesOf("Child Of")))


----------------------------------------------------------------------------
(* C21 *)

\* the records of the batch that have an identifier
NamedRecords == SelectSeq(all_samples, LAMBDA r : _extract_sample_name(r) # "")

\* C21: the graph and the finding maps of the graph checks have no key for a
\* record without identifier, and they are what the same checks build and
\* find for the batch with those records taken out
C21_UnnamedExcluded ==
    /\ "" \notin DOMAIN relationship_graph
    /\ "" \notin DOMAIN validation_errors
    /\ "" \notin DOMAIN relationship_errors
    /\ last_op = "validate_all_relationships" =>
          /\ relationship_graph = _build_relationship_graph(NamedRecords)
          /\ validation_errors =
                ValidationErrorsOf(NamedRecords, relationship_graph, biosamples_cache, config)
    /\ last_op = "validate_derived_from_relationships" =>
          relationship_errors = validate_derived_from_relationships_result(NamedRecords)

C21_Witness ==
    /\ last_op = "validate_all_relationships"
    /\ \E i \in 1..Len(all_samples) :
          /\ _extract_sample_name(all_samples[i]) = ""
          /\ _extract_derived_from(all_samples[i]) = <<"X">>
    /\ DOMAIN relationship_graph = {"A", "B"}
    /\ HasCategory(validation_errors, "A", "existence")

----------------------------------------------------------------------------
(* C22 *)

\* C22: no step of a run changes the sample records; once the graph is built
\* (the body of a sample is reached) no step changes a node or a reference
\* list of it; and the findings a run stores are keyed by identifiers of the
\* batch
C22_GraphAndRecordsFrozen ==
    [][/\ all_samples' = all_samples
       /\ pc # "idle" => relationship_graph' = relationship_graph
       /\ DOMAIN validation_errors' \subseteq Names]_vars

\* C22 witness: the existence, cycle and chain checks of a sample have all
\* run and found something, and the graph is still the one built from the batch
C22_Witness ==
    /\ pc = "done"
    /\ relationship_graph = _build_relationship_graph(all_samples)
    /\ HasCategory(validation_errors, walk_sample, "existence")
    /\ HasCategory(validation_errors, walk_sample, "cycle")
    /\ HasCategory(validation_errors, walk_sample, "depth")

----------------------------------------------------------------------------
(* C23 *)

\* the species findings of a finding map: <<node, reference>> of each
SpeciesPairs(result) ==
    UNION {{<<n, result[n][i].ref>> :
               i \in {j \in 1..Len(result[n]) : result[n][j].cat = "species"}} :
           n \in DOMAIN result}

\* n and r are records of the batch, both of the organism kind, with
\* recorded organism values that differ
LocalOrganismsThatDiffer(n, r) ==
    /\ n \in Names
    /\ r \in Names
    /\ RecordOf(n).sample_type = "organism"
    /\ RecordOf(r).sample_type = "organism"
    /\ RecordOf(n).Organism # ""
    /\ RecordOf(r).Organism # ""
    /\ RecordOf(n).Organism # RecordOf(r).Organism

\* C23: whichever check has run, a species finding of node n about reference
\* r is emitted only when n and r are both local organism-kind nodes with
\* recorded organism values that differ; none when r is external
C23_SpeciesOnlyLocalOrganisms ==
    \A result \in {validation_errors, organism_results} :
        \A p \in SpeciesPairs(result) : LocalOrganismsThatDiffer(p[1], p[2])

----------------------------------------------------------------------------
(* C24 *)

\* x is listed by n, is no node of the graph, has the shape of an external
\* identifier whatever its case, and the sample repository has resolved it
ResolvedExternalRef(n, x) ==
    /\ x \in Range(Refs(n))
    /\ x # RESTRICTED
    /\ x \notin DOMAIN relationship_graph
    /\ StartsWithSAM(Upper(x))
    /\ Upper(x) \in DOMAIN biosamples_cache

\* the material finding the resolved payload of x calls for under node n
PayloadMaterialFinding(n, x) ==
    LET ref_material == LowerMaterial(biosamples_cache[Upper(x)].material)
        allowed_materials == ALLOWED_RELATIONSHIPS(_extract_material(RecordOf(n), RecordOf(n).sample_type))
    IN ref_material # "" /\ ref_material \notin Range(allowed_materials)

\* C24: after the graph check, a resolved external reference of a node has no
\* existence finding, and it has a material finding exactly when the material
\* of the resolved payload is not allowed for the node
C24_ResolvedExternalReference ==
    last_op = "validate_all_relationships" =>
        \A n \in Names : \A x \in Range(Refs(n)) :
            ResolvedExternalRef(n, x) =>
                /\ CountFindings(validation_errors, n, "existence", x) = 0
                /\ PayloadMaterialFinding(n, x) <=> CountFindings(validation_errors, n, "material", x) > 0

----------------------------------------------------------------------------
(* C25 *)

\* the calls of the per-type validators
ValidatorCalls ==
    {"OrganoidPydanticValidator.validate_with_pydantic", "OrganoidValidator.validate_samples",
     "SpecimenValidator.validate_samples", "TeleosteiEmbryoValidator.validate_records"}

----------------------------------------------------------------------------
(* C26 *)

\* C26: in every result summary.warnings and summary.relationship_errors are
\* at most summary.total: a sample adds at most 1 to each counter
C26_CountersCountSamples ==
    /\ validation_results.summary.warnings <= validation_results.summary.total
    /\ validation_results.summary.relationship_errors <= validation_results.summary.total

----------------------------------------------------------------------------
(* C27 *)

\* no node of the graph is on a reference cycle
Acyclic(graph) == \A n \in DOMAIN graph : ~OnCycle(graph, n)

\* C27: after the graph check of an acyclic graph no node has a cycle
\* finding, also when two chains of a node join at one ancestor and when a
\* node lists a reference twice
C27_NoFalseCycle ==
    (last_op = "validate_all_relationships" /\ Acyclic(relationship_graph)) =>
        \A n \in DOMAIN relationship_graph : ~HasCategory(validation_errors, n, "cycle")

\* C27 witness: the graph check has run on a diamond (A lists B and C, both
\* list D) and A has no cycle finding
C27_Witness ==
    /\ last_op = "validate_all_relationships"
    /\ Refs("A") = <<"B", "C">>
    /\ Refs("B") = <<"D">>
    /\ Refs("C") = <<"D">>
    /\ Acyclic(relationship_graph)
    /\ ~HasCategory(validation_errors, "A", "cycle")

\* a second witness of the same: A lists B twice
C27_WitnessTwice ==
    /\ last_op = "validate_all_relationships"
    /\ Refs("A") = <<"B", "B">>
    /\ Acyclic(relationship_graph)
    /\ ~HasCategory(validation_errors, "A", "cycle")

----------------------------------------------------------------------------
(* C28 *)

\* the species findings of identifier n in a finding map
SpeciesFindings(result, n) == SelectSeq(FindingsOf(result, n), LAMBDA f : f.cat = "species")

\* C28: after the graph check, every species finding attached to a node n
\* names n as the child and one of the references n lists itself as the
\* parent, and a pair (n, r) is reported once
C28_SpeciesOfOwnReferences ==
    last_op = "validate_all_relationships" =>
        \A n \in DOMAIN validation_errors :
            \A i \in 1..Len(SpeciesFindings(validation_errors, n)) :
                LET f == SpeciesFindings(validation_errors, n)[i]
                IN /\ f.detail[1] = n
                   /\ f.ref \in Range(Refs(n))
                   /\ CountFindings(validation_errors, n, "species", f.ref) = 1

----------------------------------------------------------------------------
(* C29 *)

\* C29: after the graph check a node has a depth-exceeded finding only when
\* a chain of more than max_relationship_depth hops can be followed from it
\* without closing a cycle: a node whose chains all close a cycle within the
\* maximum (A and B referencing each other) has its cycle finding and no
\* depth-exceeded finding
C29_DepthOnlyWithoutCycle ==
    last_op = "validate_all_relationships" =>
        \A n \in DOMAIN relationship_graph :
            HasCategory(validation_errors, n, "depth") =>
                SimpleChain(n, config.max_relationship_depth + 1, {n}, relationship_graph)

----------------------------------------------------------------------------
(* C30 *)

\* message b may follow message a in the broadcasts of one file: progress
\* after 'Started' or after progress of no greater percent, the result after
\* either, 'Done' after the result only, an error after 'Started' or
\* progress, and nothing after 'Done' or an error
MayFollow(a, b) ==
    \/ /\ a = StartedMessage \/ a.type = "progress"
       /\ b.type \in {"progress", "result", "error"}
       /\ (a.type = "progress" /\ b.type = "progress") => a.percent <= b.percent
    \/ a = ResultMessage /\ b = DoneMessage

\* the messages of one file so far are in the order of the contract
InOrder(log) ==
    /\ log # <<>> => log[1] = StartedMessage
    /\ \A i \in 1..(Len(log) - 1) : MayFollow(log[i], log[i + 1])
    /\ \A i \in 1..Len(log) : log[i].type = "progress" => log[i].percent <= 1000

\* C30: at every moment, whatever the other uploads do, the messages
\* process_file has broadcast for a file are one 'Started', then progress
\* messages whose percent never decreases and never exceeds 100, then one
\* result, then one 'Done'; a processing that fails has broadcast an error,
\* and nothing follows an error; a task that has finished has ended with
\* 'Done' or with an error
C30_BroadcastOrder ==
    \A f \in Files :
        LET t == tasks[f]
        IN /\ InOrder(t.log)
           /\ t.failed <=> (t.log # <<>> /\ t.log[Len(t.log)] = ErrorMessage)
           /\ t.pc = "finished" => t.log[Len(t.log)] \in {DoneMessage, ErrorMessage}

\* C30 witness: two uploads were processed at once; the first has finished
\* with two progress messages, its result and 'Done', while the second, which
\* failed after its first progress message, is still broadcasting its error
C30_Witness ==
    /\ tasks["f1"].pc = "finished"
    /\ tasks["f1"].log = <<StartedMessage, ProgressMessage(667), ProgressMessage(1000),
                           ResultMessage, DoneMessage>>
    /\ tasks["f2"].pc = "broadcast"
    /\ tasks["f2"].failed
    /\ Len(tasks["f2"].log) = 3
    /\ tasks["f2"].pending # {}

====
